---------------------------- MODULE Spec2Model ----------------------------
(***************************************************************************)
(* Sentiment scoring and fusion layer of the social media analytics        *)
(* module: TextAnalyzer (text_analyzer.py), EmojiAnalyzer                  *)
(* (emoji_analyzer.py), ImageAnalyzer (image_analyzer.py), AudioAnalyzer   *)
(* (audio_analyzer.py) and VideoAnalyzer (video_analyzer.py).              *)
(*                                                                         *)
(* The analyzers keep no state between calls, so each variable below is    *)
(* either an input handed to a method or the value the method returned.    *)
(*                                                                         *)
(* Numbers.  Python floats are modelled in exact fixed point:              *)
(*   - a lexical score (VADER compound, TextBlob polarity) is an integer   *)
(*     number of hundredths, -100..100 for -1.0..1.0;                      *)
(*   - the weights 0.6 and 0.4 are 6 and 4 tenths, so a combined score is  *)
(*     an integer number of thousandths;                                   *)
(*   - a quotient (a percentage, the emoji score, a mean) is the pair      *)
(*     [num, den] of the division the code performs; a percentage of the   *)
(*     summary carries next to it the double the code computes (float).    *)
(* The arithmetic is exact.  A double rounds each product and each sum, so *)
(* the value the code computes can lie a few units in the last place off   *)
(* the exact one (0.6 * -0.75 + 0.4 * 1.0 computes -0.04999999999999993);  *)
(* the code compares the value it computed, as the model compares the      *)
(* value it models.                                                        *)
(***************************************************************************)
EXTENDS Integers, Sequences, FiniteSets, TLC

VARIABLES
    text,        \* TextAnalyzer: the text handed to the three scorers
    vaderRes,    \* what analyze_sentiment_vader(text) returned
    blobRes,     \* what analyze_sentiment_textblob(text) returned
    combRes,     \* what combined_sentiment(text) returned
    texts,       \* the list handed to TextAnalyzer.analyze_batch
    df,          \* the DataFrame analyze_batch returned
    summary,     \* the outcome of get_sentiment_summary(df): returned or raised
    emoticon_sentiments,  \* EmojiAnalyzer.emoticon_sentiments
    positive_emojis,      \* EmojiAnalyzer.positive_emojis
    negative_emojis,      \* EmojiAnalyzer.negative_emojis
    post,        \* EmojiAnalyzer: the post under analysis
    emojiRes,    \* what analyze_emoji_sentiment returned, per analysed text
    image,       \* ImageAnalyzer: the image file handed to analyze_image
    imageRes,    \* the outcome of analyze_image(image)
    lookupArg,   \* EmojiAnalyzer: the string handed to _get_emoji_sentiment
    lookupRes,   \* what _get_emoji_sentiment(lookupArg) returned
    posts,       \* the list handed to EmojiAnalyzer.analyze_batch
    emojiBatchRes,  \* the outcome of EmojiAnalyzer.analyze_batch(posts)
    audio,       \* AudioAnalyzer: an audio file handed to analyze_audio
    audio2,      \* a second audio file handed to analyze_audio
    audioRes,    \* the outcome of analyze_audio, per analysed file
    video,       \* VideoAnalyzer: a video file handed to analyze_video
    video2,      \* a second video file handed to analyze_video
    videoRes     \* the outcome of analyze_video, per analysed file

textVars == <<text, vaderRes, blobRes, combRes>>
batchVars == <<texts, df, summary>>
tableVars == <<emoticon_sentiments, positive_emojis, negative_emojis>>
emojiVars == <<post, emojiRes>>
imageVars == <<image, imageRes>>
lookupVars == <<lookupArg, lookupRes>>
emojiBatchVars == <<posts, emojiBatchRes>>
audioVars == <<audio, audio2, audioRes>>
videoVars == <<video, video2, videoRes>>

vars == <<textVars, batchVars, tableVars, emojiVars, imageVars, lookupVars,
          emojiBatchVars, audioVars, videoVars>>

Abs(x) == IF x < 0 THEN -x ELSE x

\* A method that has not been called yet has returned nothing.
NoResult == [label |-> "none"]

-----------------------------------------------------------------------------
(***************************************************************************)
(* Texts.  The lexical scorers (VADER, TextBlob) and the hashtag/mention   *)
(* regexes are library calls; a text is modelled by what they return for   *)
(* it.  compound and polarity are in hundredths.                           *)
(***************************************************************************)

\* Both libraries document their score as lying in -1.0 .. 1.0.
MaxScore == 100

Scores == (-MaxScore)..MaxScore

Text(id, compound, polarity) ==
    [id |-> id, compound |-> compound, polarity |-> polarity]

-----------------------------------------------------------------------------
(***************************************************************************)
(* TextAnalyzer: the three labelers                                        *)
(***************************************************************************)

\* analyze_sentiment_vader, lines 82-87: compound >= 0.05 / <= -0.05.
VaderLabel(compound) ==
    IF compound >= 5 THEN "Positive"
    ELSE IF compound <= -5 THEN "Negative"
    ELSE "Neutral"

\* analyze_sentiment_textblob, lines 106-111: polarity > 0.05 / < -0.05.
TextBlobLabel(polarity) ==
    IF polarity > 5 THEN "Positive"
    ELSE IF polarity < -5 THEN "Negative"
    ELSE "Neutral"

analyze_sentiment_vader(t) ==
    [text |-> t.id,
     label |-> VaderLabel(t.compound),
     compound |-> t.compound,
     confidence |-> Abs(t.compound)]

analyze_sentiment_textblob(t) ==
    [text |-> t.id,
     polarity |-> t.polarity,
     label |-> TextBlobLabel(t.polarity)]

\* The weights exchanged: TextBlob weighted 0.6 and VADER 0.4.
CombinedScoreSwapped(vader_compound, textblob_polarity) ==
    vader_compound * 4 + textblob_polarity * 6

\* combined_sentiment, lines 128-131, in thousandths.
CombinedScore(vader_compound, textblob_polarity) ==
    vader_compound * 6 + textblob_polarity * 4

\* The strict comparisons of analyze_sentiment_textblob used on the combined
\* score.
CombinedLabelWithMixed(combined_score) ==
    IF combined_score >= 50 THEN "Positive"
    ELSE IF combined_score <= -50 THEN "Negative"
    ELSE IF combined_score = 0 THEN "Mixed"
    ELSE "Neutral"

CombinedLabelStrict(combined_score) ==
    IF combined_score > 50 THEN "Positive"
    ELSE IF combined_score < -50 THEN "Negative"
    ELSE "Neutral"

\* combined_sentiment, lines 133-138: combined >= 0.05 / <= -0.05
\* (50 thousandths).
CombinedLabel(combined_score) ==
    IF combined_score >= 50 THEN "Positive"
    ELSE IF combined_score <= -50 THEN "Negative"
    ELSE "Neutral"

combined_sentiment(t) ==
    LET vader_result == analyze_sentiment_vader(t)
        textblob_result == analyze_sentiment_textblob(t)
        combined_score == CombinedScore(vader_result.compound,
                                        textblob_result.polarity)
    IN  [text |-> t.id,
         vader_score |-> vader_result.compound,
         textblob_polarity |-> textblob_result.polarity,
         combined_score |-> combined_score,
         label |-> CombinedLabel(combined_score),
         confidence |-> Abs(combined_score)]

-----------------------------------------------------------------------------
(***************************************************************************)
(* EmojiAnalyzer: the lookup tables                                        *)
(*                                                                         *)
(* A text is the sequence of its code points, each a one-character string  *)
(* for ASCII and "U+XXXX" otherwise.                                       *)
(***************************************************************************)

\* self.emoticon_sentiments as built by __init__, in insertion order.
EmoticonTable ==
    <<
     [emoticon |-> <<":", ")">>, sentiment |-> "positive"],
     [emoticon |-> <<":", "-", ")">>, sentiment |-> "positive"],
     [emoticon |-> <<":", "D">>, sentiment |-> "positive"],
     [emoticon |-> <<":", "-", "D">>, sentiment |-> "positive"],
     [emoticon |-> <<";", ")">>, sentiment |-> "positive"],
     [emoticon |-> <<";", "-", ")">>, sentiment |-> "positive"],
     [emoticon |-> <<":", "P">>, sentiment |-> "positive"],
     [emoticon |-> <<":", "-", "P">>, sentiment |-> "positive"],
     [emoticon |-> <<"X", "D">>, sentiment |-> "positive"],
     [emoticon |-> <<"<", "3">>, sentiment |-> "positive"],
     [emoticon |-> <<":", "*">>, sentiment |-> "positive"],
     [emoticon |-> <<"^", "^">>, sentiment |-> "positive"],
     [emoticon |-> <<"=", ")">>, sentiment |-> "positive"],
     [emoticon |-> <<"=", "D">>, sentiment |-> "positive"],
     [emoticon |-> <<"B", ")">>, sentiment |-> "positive"],
     [emoticon |-> <<":", "(">>, sentiment |-> "negative"],
     [emoticon |-> <<":", "-", "(">>, sentiment |-> "negative"],
     [emoticon |-> <<":", "'", "(">>, sentiment |-> "negative"],
     [emoticon |-> <<"D", ":">>, sentiment |-> "negative"],
     [emoticon |-> <<">", ":", "(">>, sentiment |-> "negative"],
     [emoticon |-> <<":", "/">>, sentiment |-> "negative"],
     [emoticon |-> <<":", "-", "/">>, sentiment |-> "negative"],
     [emoticon |-> <<":", "|">>, sentiment |-> "negative"],
     [emoticon |-> <<":", "-", "|">>, sentiment |-> "negative"],
     [emoticon |-> <<">", ".", "<">>, sentiment |-> "negative"],
     [emoticon |-> <<"T", "_", "T">>, sentiment |-> "negative"],
     [emoticon |-> <<"T", "T">>, sentiment |-> "negative"],
     [emoticon |-> <<":", "-", "O">>, sentiment |-> "neutral"],
     [emoticon |-> <<":", "O">>, sentiment |-> "neutral"],
     [emoticon |-> <<"O", "_", "o">>, sentiment |-> "neutral"],
     [emoticon |-> <<"o", "_", "O">>, sentiment |-> "neutral"],
     [emoticon |-> <<".", "_", ".">>, sentiment |-> "neutral"]
    >>

\* self.positive_emojis as built by __init__.  A Python string is the
\* sequence of its code points; the red heart is U+2764 followed by the
\* variation selector U+FE0F.
PositiveEmojiTable ==
    {
     <<"U+1F600">>, <<"U+1F603">>, <<"U+1F604">>, <<"U+1F601">>,
     <<"U+1F606">>, <<"U+1F605">>, <<"U+1F923">>, <<"U+1F602">>,
     <<"U+1F642">>, <<"U+1F643">>, <<"U+1F609">>, <<"U+1F60A">>,
     <<"U+1F607">>, <<"U+1F970">>, <<"U+1F60D">>, <<"U+1F929">>,
     <<"U+1F618">>, <<"U+1F617">>, <<"U+1F61A">>, <<"U+1F619">>,
     <<"U+1F972">>, <<"U+1F60B">>, <<"U+1F61B">>, <<"U+1F61C">>,
     <<"U+1F92A">>, <<"U+1F61D">>, <<"U+1F44D">>, <<"U+1F44F">>,
     <<"U+1F389">>, <<"U+1F38A">>, <<"U+2764", "U+FE0F">>, <<"U+1F495">>,
     <<"U+1F496">>, <<"U+1F497">>, <<"U+1F493">>, <<"U+1F49D">>,
     <<"U+1F498">>, <<"U+1F31F">>, <<"U+2B50">>, <<"U+2728">>,
     <<"U+1F525">>, <<"U+1F4AA">>, <<"U+1F917">>, <<"U+1F973">>,
     <<"U+1F60E">>, <<"U+1F91F">>, <<"U+1F64C">>, <<"U+1F44C">>
    }

\* self.negative_emojis as built by __init__.
NegativeEmojiTable ==
    {
     <<"U+1F61E">>, <<"U+1F614">>, <<"U+1F61F">>, <<"U+1F615">>,
     <<"U+1F641">>, <<"U+2639", "U+FE0F">>, <<"U+1F623">>, <<"U+1F616">>,
     <<"U+1F62B">>, <<"U+1F629">>, <<"U+1F97A">>, <<"U+1F622">>,
     <<"U+1F62D">>, <<"U+1F624">>, <<"U+1F620">>, <<"U+1F621">>,
     <<"U+1F92C">>, <<"U+1F608">>, <<"U+1F47F">>, <<"U+1F480">>,
     <<"U+2620", "U+FE0F">>, <<"U+1F494">>, <<"U+1F630">>, <<"U+1F625">>,
     <<"U+1F613">>, <<"U+1F92E">>, <<"U+1F922">>, <<"U+1F631">>,
     <<"U+1F628">>, <<"U+1F44E">>, <<"U+1F612">>, <<"U+1F611">>,
     <<"U+1F62C">>, <<"U+1F925">>, <<"U+1F62A">>, <<"U+1F971">>,
     <<"U+1F635">>, <<"U+1F915">>, <<"U+1F912">>, <<"U+1F4A9">>
    }

\* EmojiAnalyzer.__init__ has run: the three tables hold what it builds.
TablesBuilt ==
    /\ emoticon_sentiments = EmoticonTable
    /\ positive_emojis = PositiveEmojiTable
    /\ negative_emojis = NegativeEmojiTable

\* No image handed over yet, analyze_image not called yet.
NoImage == [exists |-> FALSE, pil_opens |-> FALSE, cv2_reads |-> FALSE,
            clusters |-> <<>>, brightness |-> 0]
NoImageResult == [status |-> "none"]

EmojiIdle == TablesBuilt /\ post = <<>> /\ emojiRes = <<>>
ImageIdle == image = NoImage /\ imageRes = NoImageResult

\* Nothing looked up, no batch of posts, no audio file and no video file
\* handed over yet.
NoLookup == "none"
NoBatchResult == [status |-> "none"]
NoAudio == [exists |-> FALSE, id |-> "none"]
NoVideo == [exists |-> FALSE, id |-> "none"]

LookupIdle == lookupArg = <<>> /\ lookupRes = NoLookup
EmojiBatchIdle == posts = <<>> /\ emojiBatchRes = NoBatchResult
AudioIdle == audio = NoAudio /\ audio2 = NoAudio /\ audioRes = <<>>
VideoIdle == video = NoVideo /\ video2 = NoVideo /\ videoRes = <<>>

-----------------------------------------------------------------------------
(***************************************************************************)
(* SpecText: one text, scored by each of the three public methods.         *)
(***************************************************************************)

NoText == Text("", 0, 0)

\* No DataFrame built yet, no summary asked for yet.
NoDf == [built |-> FALSE, columns |-> {}, rows |-> <<>>]
NoSummary == [status |-> "none"]

BatchIdle == texts = <<>> /\ df = NoDf /\ summary = NoSummary
TextIdle == text = NoText /\ vaderRes = NoResult /\ blobRes = NoResult
            /\ combRes = NoResult

InitText ==
    /\ text \in {Text("t", s, g) : s \in Scores, g \in Scores}
    /\ vaderRes = NoResult
    /\ blobRes = NoResult
    /\ combRes = NoResult
    /\ BatchIdle
    /\ EmojiIdle
    /\ ImageIdle
    /\ LookupIdle
    /\ EmojiBatchIdle
    /\ AudioIdle
    /\ VideoIdle

AnalyzeSentimentVader ==
    /\ vaderRes = NoResult
    /\ vaderRes' = analyze_sentiment_vader(text)
    /\ UNCHANGED <<text, blobRes, combRes, batchVars, tableVars, emojiVars,
                   imageVars,
                   lookupVars, emojiBatchVars, audioVars, videoVars>>

AnalyzeSentimentTextblob ==
    /\ blobRes = NoResult
    /\ blobRes' = analyze_sentiment_textblob(text)
    /\ UNCHANGED <<text, vaderRes, combRes, batchVars, tableVars, emojiVars,
                   imageVars,
                   lookupVars, emojiBatchVars, audioVars, videoVars>>

CombinedSentiment ==
    /\ combRes = NoResult
    /\ combRes' = combined_sentiment(text)
    /\ UNCHANGED <<text, vaderRes, blobRes, batchVars, tableVars, emojiVars,
                   imageVars,
                   lookupVars, emojiBatchVars, audioVars, videoVars>>

NextText ==
    \/ AnalyzeSentimentVader
    \/ AnalyzeSentimentTextblob
    \/ CombinedSentiment

SpecText == InitText /\ [][NextText]_vars

-----------------------------------------------------------------------------
(***************************************************************************)
(* TextAnalyzer.analyze_batch and get_sentiment_summary                    *)
(*                                                                         *)
(* A pandas DataFrame is modelled by its set of column names and its rows  *)
(* in index order (the index is the RangeIndex 1..n here, 0..n-1 in        *)
(* pandas).  pd.DataFrame(results) takes its columns from the keys of the  *)
(* dicts in the list: built from an empty list it has no columns at all.   *)
(* Rows carry the columns get_sentiment_summary reads and the scores.      *)
(***************************************************************************)

ResultColumns ==
    {"text", "vader_score", "textblob_polarity", "textblob_subjectivity",
     "combined_score", "label", "confidence", "hashtags", "mentions"}

DataFrame(results) ==
    [built |-> TRUE,
     columns |-> IF results = <<>> THEN {} ELSE ResultColumns,
     rows |-> results]

\* A list element that is not a str (None, or the float NaN of an empty
\* cell): iterating it, as VADER's polarity_scores and
\* EmojiAnalyzer.extract_emojis do, raises TypeError.
NotAString == [not_str |-> "float"]

IsStr(unit) == "not_str" \notin DOMAIN unit

\* The position of the first element of a list that is not a str, 0 if all
\* are.
FirstNotStr(units) ==
    IF \A i \in 1..Len(units) : IsStr(units[i]) THEN 0
    ELSE CHOOSE i \in 1..Len(units) :
             /\ ~IsStr(units[i])
             /\ \A j \in 1..(i - 1) : IsStr(units[j])

\* analyze_batch, lines 169-181.  The loop has no exception handler: an
\* exception leaving combined_sentiment leaves analyze_batch, and the results
\* gathered so far (kept here in rows) are lost with the local list.
analyze_batch(ts) ==
    IF FirstNotStr(ts) = 0
    THEN DataFrame([i \in 1..Len(ts) |-> combined_sentiment(ts[i])])
    ELSE [built |-> FALSE,
          columns |-> {},
          rows |-> [i \in 1..(FirstNotStr(ts) - 1) |->
                       combined_sentiment(ts[i])],
          exception |-> "TypeError"]

\* len(df[df['label'] == l])
CountLabel(rows, l) ==
    Cardinality({i \in 1..Len(rows) : rows[i].label = l})

\* Python floats are IEEE 754 doubles.  A positive double is the pair of its
\* 53-bit significand m, most significant bit first, and the exponent e of
\* the last bit: the value is m * 2^e.  Zero has the empty significand.
Precision == 53

Zero == [m |-> <<>>, e |-> 0]

Zeros(k) == [i \in 1..k |-> 0]

RECURSIVE StripZeros(_)
StripZeros(bits) ==
    IF bits # <<>> /\ Head(bits) = 0 THEN StripZeros(Tail(bits)) ELSE bits

\* The binary digits of a natural number.
RECURSIVE BitsOf(_)
BitsOf(k) == IF k = 0 THEN <<>> ELSE BitsOf(k \div 2) \o <<k % 2>>

\* The binary digits of the number after the one written as bits.
RECURSIVE Successor(_)
Successor(bits) ==
    IF bits = <<>> THEN <<1>>
    ELSE IF bits[Len(bits)] = 0
    THEN SubSeq(bits, 1, Len(bits) - 1) \o <<1>>
    ELSE Successor(SubSeq(bits, 1, Len(bits) - 1)) \o <<0>>

\* The double nearest to the exact value bits * 2^e, plus a non-zero amount
\* below the last bit when sticky; ties go to the even significand.
RoundToDouble(bits, e, sticky) ==
    LET sig == StripZeros(bits)
    IN  IF sig = <<>> THEN Zero
        ELSE IF Len(sig) <= Precision
        THEN [m |-> sig \o Zeros(Precision - Len(sig)),
              e |-> e - (Precision - Len(sig))]
        ELSE LET kept == SubSeq(sig, 1, Precision)
                 rest == sticky
                         \/ \E i \in (Precision + 2)..Len(sig) : sig[i] = 1
                 up == /\ sig[Precision + 1] = 1
                       /\ (rest \/ kept[Precision] = 1)
                 rounded == IF up THEN Successor(kept) ELSE kept
                 e1 == e + Len(sig) - Precision
             IN  IF Len(rounded) > Precision
                 THEN [m |-> SubSeq(rounded, 1, Precision), e |-> e1 + 1]
                 ELSE [m |-> rounded, e |-> e1]

\* The binary places the long division count / total is carried to before
\* the quotient is rounded.
FractionBits == 64

\* The first k binary places of r / n, for r < n, and what is left over.
RECURSIVE QuotientBits(_, _, _)
QuotientBits(r, n, k) ==
    IF k = 0 THEN <<>>
    ELSE <<IF 2 * r >= n THEN 1 ELSE 0>>
         \o QuotientBits((2 * r) % n, n, k - 1)

RECURSIVE QuotientRest(_, _, _)
QuotientRest(r, n, k) ==
    IF k = 0 THEN r ELSE QuotientRest((2 * r) % n, n, k - 1)

\* int / int: the double nearest to the quotient.
FloatDiv(count, total) ==
    RoundToDouble(BitsOf(count \div total)
                      \o QuotientBits(count % total, total, FractionBits),
                  -FractionBits,
                  QuotientRest(count % total, total, FractionBits) # 0)

\* bits * k + carry in binary.
RECURSIVE TimesCarry(_, _, _)
TimesCarry(bits, k, carry) ==
    IF bits = <<>> THEN BitsOf(carry)
    ELSE TimesCarry(SubSeq(bits, 1, Len(bits) - 1), k,
                    (bits[Len(bits)] * k + carry) \div 2)
         \o <<(bits[Len(bits)] * k + carry) % 2>>

\* float * k for an integer k that is a double: the double nearest to the
\* product.
FloatTimes(x, k) == RoundToDouble(TimesCarry(x.m, k, 0), x.e, FALSE)

\* count / total without the factor 100.
PercentageUnscaled(count, total) ==
    IF total > 0
    THEN [num |-> count, den |-> total, float |-> FloatDiv(count, total)]
    ELSE [num |-> 0, den |-> 1, float |-> Zero]

\* (count / len(df) * 100) if len(df) > 0 else 0: the exact quotient num/den
\* and the double the two float operations compute.
Percentage(count, total) ==
    IF total > 0
    THEN [num |-> count * 100, den |-> total,
          float |-> FloatTimes(FloatDiv(count, total), 100)]
    ELSE [num |-> 0, den |-> 1, float |-> Zero]

\* A scan that keeps the last of several equal maxima.
RECURSIVE IdxMaxLastFrom(_, _, _)
IdxMaxLastFrom(rows, i, best) ==
    IF i > Len(rows) THEN best
    ELSE IdxMaxLastFrom(rows, i + 1,
            IF rows[i].combined_score >= rows[best].combined_score
            THEN i ELSE best)

IdxMaxLast(rows) == IdxMaxLastFrom(rows, 2, 1)

\* Series.idxmax(): the index of the first occurrence of the maximum.
RECURSIVE IdxMaxFrom(_, _, _)
IdxMaxFrom(rows, i, best) ==
    IF i > Len(rows) THEN best
    ELSE IdxMaxFrom(rows, i + 1,
            IF rows[i].combined_score > rows[best].combined_score
            THEN i ELSE best)

IdxMax(rows) == IdxMaxFrom(rows, 2, 1)

\* Series.idxmin(): the index of the first occurrence of the minimum.
RECURSIVE IdxMinFrom(_, _, _)
IdxMinFrom(rows, i, best) ==
    IF i > Len(rows) THEN best
    ELSE IdxMinFrom(rows, i + 1,
            IF rows[i].combined_score < rows[best].combined_score
            THEN i ELSE best)

IdxMin(rows) == IdxMinFrom(rows, 2, 1)

RECURSIVE SumScores(_, _)
SumScores(rows, n) ==
    IF n = 0 THEN 0 ELSE SumScores(rows, n - 1) + rows[n].combined_score

RECURSIVE SumSquares(_, _)
SumSquares(rows, n) ==
    IF n = 0 THEN 0
    ELSE SumSquares(rows, n - 1)
            + rows[n].combined_score * rows[n].combined_score

NaN == [num |-> 0, den |-> 0]

\* Series.mean(): sum / n, NaN for an empty series.
Mean(rows) ==
    IF Len(rows) = 0 THEN NaN
    ELSE [num |-> SumScores(rows, Len(rows)), den |-> Len(rows)]

\* Series.std() is the square root of the sample variance
\* (n*sum(x^2) - sum(x)^2) / (n*(n-1)), NaN for fewer than two rows; the
\* variance is what is kept.
SampleVariance(rows) ==
    LET n == Len(rows)
        sum == SumScores(rows, n)
    IN  IF n < 2 THEN NaN
        ELSE [num |-> n * SumSquares(rows, n) - sum * sum,
              den |-> n * (n - 1)]

\* The dict literal is evaluated top to bottom: len(df) is taken, then
\* df['label'] is read, which raises KeyError on a frame without that
\* column, and nothing is returned.
get_sentiment_summary(d) ==
    IF "label" \notin d.columns
    THEN [status |-> "raised", exception |-> "KeyError"]
    ELSE LET rows == d.rows
             n == Len(rows)
         IN  [status |-> "returned",
              total_posts |-> n,
              positive_count |-> CountLabel(rows, "Positive"),
              negative_count |-> CountLabel(rows, "Negative"),
              neutral_count |-> CountLabel(rows, "Neutral"),
              avg_sentiment |-> Mean(rows),
              sentiment_var |-> SampleVariance(rows),
              most_positive |->
                  IF n > 0 THEN rows[IdxMax(rows)].text ELSE "None",
              most_negative |->
                  IF n > 0 THEN rows[IdxMin(rows)].text ELSE "None",
              positive_percentage |->
                  Percentage(CountLabel(rows, "Positive"), n),
              negative_percentage |->
                  Percentage(CountLabel(rows, "Negative"), n),
              neutral_percentage |->
                  Percentage(CountLabel(rows, "Neutral"), n)]

-----------------------------------------------------------------------------
(***************************************************************************)
(* SpecBatch: a list of texts is analysed as a batch and then summarised.  *)
(***************************************************************************)

\* The longest batch.
MaxBatch == 5

\* Five posts: a and d share the highest combined score (0.71), b and e the
\* lowest (-0.44), c is neutral.
BatchTexts ==
    {Text("a", 85, 50), Text("b", -60, -20), Text("c", 0, 0),
     Text("d", 75, 65), Text("e", -40, -50)}

SeqsUpTo(S, n) == UNION {[1..k -> S] : k \in 0..n}

InitBatch ==
    /\ texts \in SeqsUpTo(BatchTexts, MaxBatch)
    /\ df = NoDf
    /\ summary = NoSummary
    /\ TextIdle
    /\ EmojiIdle
    /\ ImageIdle
    /\ LookupIdle
    /\ EmojiBatchIdle
    /\ AudioIdle
    /\ VideoIdle

AnalyzeBatch ==
    /\ df = NoDf
    /\ df' = analyze_batch(texts)
    /\ UNCHANGED <<textVars, texts, summary, tableVars, emojiVars, imageVars,
                   lookupVars, emojiBatchVars, audioVars, videoVars>>

GetSentimentSummary ==
    /\ df.built
    /\ summary = NoSummary
    /\ summary' = get_sentiment_summary(df)
    /\ UNCHANGED <<textVars, texts, df, tableVars, emojiVars, imageVars,
                   lookupVars, emojiBatchVars, audioVars, videoVars>>

NextBatch ==
    \/ AnalyzeBatch
    \/ GetSentimentSummary

SpecBatch == InitBatch /\ [][NextBatch]_vars

-----------------------------------------------------------------------------
(***************************************************************************)
(* EmojiAnalyzer: extraction and symbolic fusion                           *)
(***************************************************************************)

\* emoji.is_emoji(char) for a single code point (a library call): the code
\* points the tables start with, and the thinking face U+1F914, which is in
\* neither table.  The variation selector U+FE0F alone is not an emoji.
EmojiCodePoints ==
    {e[1] : e \in PositiveEmojiTable \cup NegativeEmojiTable} \cup {"U+1F914"}

is_emoji(char) == char \in EmojiCodePoints

get_emoji_sentiment_positive_only(emoji_char) ==
    IF emoji_char \in positive_emojis THEN "positive" ELSE "neutral"

\* _get_emoji_sentiment, lines 96-102; emoji_char is a string, the sequence
\* of its code points.
get_emoji_sentiment(emoji_char) ==
    IF emoji_char \in positive_emojis THEN "positive"
    ELSE IF emoji_char \in negative_emojis THEN "negative"
    ELSE "neutral"

\* extract_emojis, lines 70-80: one match per emoji code point, in text order.
RECURSIVE extract_emojis(_)
extract_emojis(t) ==
    IF t = <<>> THEN <<>>
    ELSE (IF is_emoji(Head(t))
          THEN <<[emoji |-> Head(t),
                  sentiment |-> get_emoji_sentiment(<<Head(t)>>)]>>
          ELSE <<>>) \o extract_emojis(Tail(t))

\* The characters of sub occur in t in order, not necessarily side by side.
RECURSIVE IsSubsequence(_, _)
IsSubsequence(sub, t) ==
    IF sub = <<>> THEN TRUE
    ELSE IF t = <<>> THEN FALSE
    ELSE IF Head(sub) = Head(t) THEN IsSubsequence(Tail(sub), Tail(t))
    ELSE IsSubsequence(sub, Tail(t))

\* Python's `emoticon in text` for strings.
IsSubstring(sub, t) ==
    \E i \in 1..(Len(t) - Len(sub) + 1) :
        SubSeq(t, i, i + Len(sub) - 1) = sub

RECURSIVE OccurrencesIn(_, _)
OccurrencesIn(table, t) ==
    IF table = <<>> THEN <<>>
    ELSE [i \in 1..Cardinality(
                      {k \in 1..(Len(t) - Len(Head(table).emoticon) + 1) :
                          SubSeq(t, k, k + Len(Head(table).emoticon) - 1)
                              = Head(table).emoticon}) |-> Head(table)]
         \o OccurrencesIn(Tail(table), t)

extract_emoticons_every_occurrence(t) ==
    OccurrencesIn(emoticon_sentiments, t)

\* extract_emoticons, lines 82-91: the table entries present in the text, in
\* table order.
extract_emoticons(t) ==
    LET Present(entry) == IsSubstring(entry.emoticon, t)
    IN  SelectSeq(emoticon_sentiments, Present)

CountSentiment(sentiments, s) ==
    Cardinality({i \in 1..Len(sentiments) : sentiments[i] = s})

\* The neutral matches left out of the denominator.
EmojiScoreWithoutNeutral(pos, neg, total) ==
    IF pos + neg = 0 THEN [num |-> 0, den |-> 1]
    ELSE [num |-> pos - neg, den |-> pos + neg]

\* The difference of the counts, not divided by the total.
EmojiScoreDifference(pos, neg, total) ==
    [num |-> pos - neg, den |-> 1]

\* analyze_emoji_sentiment, lines 122-128: 0.0 without matches, otherwise
\* (pos - neg) / total, as the quotient num/den.
EmojiScore(pos, neg, total) ==
    IF total = 0 THEN [num |-> 0, den |-> 1]
    ELSE [num |-> pos - neg, den |-> total]

\* No distinct category for a text without symbols.
OverallEmojiSentimentNoCategory(score, total) ==
    IF score.num * 10 > score.den THEN "positive"
    ELSE IF score.num * 10 < -score.den THEN "negative"
    ELSE "neutral"

\* analyze_emoji_sentiment, lines 122-135: 'no_emoji' without matches,
\* otherwise score > 0.1, score < -0.1, else neutral (score.den > 0).
OverallEmojiSentiment(score, total) ==
    IF total = 0 THEN "no_emoji"
    ELSE IF score.num * 10 > score.den THEN "positive"
    ELSE IF score.num * 10 < -score.den THEN "negative"
    ELSE "neutral"

\* Counter(items) turned into a dict: a count for each item that occurs.
CounterOf(items) ==
    [x \in {items[i] : i \in 1..Len(items)} |->
        Cardinality({i \in 1..Len(items) : items[i] = x})]

analyze_emoji_sentiment(t) ==
    LET emojis == extract_emojis(t)
        emoticons == extract_emoticons(t)
        all_sentiments ==
            [i \in 1..Len(emojis) |-> emojis[i].sentiment]
                \o [i \in 1..Len(emoticons) |-> emoticons[i].sentiment]
        total == Len(all_sentiments)
        pos == CountSentiment(all_sentiments, "positive")
        neg == CountSentiment(all_sentiments, "negative")
        score == EmojiScore(pos, neg, total)
    IN  [text |-> t,
         emojis_found |-> emojis,
         emoticons_found |-> emoticons,
         total_emoji_count |-> Len(emojis),
         total_emoticon_count |-> Len(emoticons),
         sentiment_distribution |-> CounterOf(all_sentiments),
         emoji_sentiment_score |-> score,
         overall_emoji_sentiment |-> OverallEmojiSentiment(score, total),
         emoji_frequency |->
             CounterOf([i \in 1..Len(emojis) |-> emojis[i].emoji])]

\* The keys of a Counter in insertion order: each item at its first
\* occurrence.
RECURSIVE InsertionOrder(_)
InsertionOrder(items) ==
    IF items = <<>> THEN <<>>
    ELSE LET front == InsertionOrder(SubSeq(items, 1, Len(items) - 1))
             last == items[Len(items)]
         IN  IF \E i \in 1..Len(front) : front[i] = last
             THEN front
             ELSE Append(front, last)

\* Counter.update: the counts of a Counter after the counts of another have
\* been added to it.
CounterUpdate(counter, other) ==
    [x \in DOMAIN counter \cup DOMAIN other |->
        (IF x \in DOMAIN counter THEN counter[x] ELSE 0)
        + (IF x \in DOMAIN other THEN other[x] ELSE 0)]

\* A counter kept on the analyzer between calls of analyze_batch.
CarriedCounter ==
    IF DOMAIN emojiBatchRes = {} THEN <<>>
    ELSE LET ps == CHOOSE ps \in DOMAIN emojiBatchRes : TRUE
         IN  emojiBatchRes[ps][1].overall_sentiment_distribution

\* Counter(), lines 154-155: analyze_batch starts each call with counters
\* that are local and empty.
NewCounter == <<>>

RECURSIVE SumCounters(_, _)
SumCounters(results, field) ==
    IF results = <<>> THEN NewCounter
    ELSE CounterUpdate(
             SumCounters(SubSeq(results, 1, Len(results) - 1), field),
             results[Len(results)][field])

\* all_emojis.most_common(20) is called with 20.
TopEmojis == 20

\* The emojis of the analysed posts in the order the Counter first meets
\* them.
RECURSIVE AllEmojis(_)
AllEmojis(results) ==
    IF results = <<>> THEN <<>>
    ELSE [i \in 1..Len(Head(results).emojis_found) |->
             Head(results).emojis_found[i].emoji]
         \o AllEmojis(Tail(results))

\* Counter.most_common(n): the n largest counts, equal counts in insertion
\* order.
RECURSIVE most_common(_, _, _)
most_common(keys, counts, n) ==
    IF n = 0 \/ keys = <<>> THEN <<>>
    ELSE LET best == CHOOSE i \in 1..Len(keys) :
                         \A j \in 1..Len(keys) :
                             /\ counts[keys[j]] <= counts[keys[i]]
                             /\ j < i => counts[keys[j]] < counts[keys[i]]
             rest == [i \in 1..(Len(keys) - 1) |->
                         IF i < best THEN keys[i] ELSE keys[i + 1]]
         IN  <<[emoji |-> keys[best], count |-> counts[keys[best]]]>>
             \o most_common(rest, counts, n - 1)

\* EmojiAnalyzer.analyze_batch, lines 152-171.  The loop has no exception
\* handler: the TypeError extract_emojis raises on an element that is not a
\* str leaves analyze_batch, and the results gathered so far (kept here in
\* individual_results) are lost with the local list.
emoji_analyze_batch(ps) ==
    LET n == IF FirstNotStr(ps) = 0 THEN Len(ps) ELSE FirstNotStr(ps) - 1
        results == [i \in 1..n |-> analyze_emoji_sentiment(ps[i].chars)]
    IN  IF FirstNotStr(ps) # 0
        THEN [status |-> "raised", exception |-> "TypeError",
              individual_results |-> results]
        ELSE [status |-> "returned",
              individual_results |-> results,
              top_emojis |->
                  most_common(InsertionOrder(AllEmojis(results)),
                              CounterOf(AllEmojis(results)), TopEmojis),
              overall_sentiment_distribution |->
                  SumCounters(results, "sentiment_distribution"),
              total_posts_with_emojis |->
                  Cardinality({i \in 1..n :
                                  results[i].total_emoji_count > 0})]

-----------------------------------------------------------------------------
(***************************************************************************)
(* SpecEmoji: a post, and the same post written twice, with and without    *)
(* a space between the copies, are analysed.                               *)
(***************************************************************************)

\* The longest post built freely from PostAlphabet.
MaxPostLen == 3

\* The longest run of one emoji in a post of the form P..P N..N U..U.
MaxRun == 5

\* A positive, a negative and a neutral emoji, a letter, and the characters
\* of the emoticons :) :-) :( :-( >:( :O :-O :D :-D D:.
PostAlphabet ==
    {"U+1F60D", "U+1F621", "U+1F914", "a", ":", ")", "(", "-", ">", "O", "D"}

Repeat(c, n) == [i \in 1..n |-> c]

RunPosts ==
    {Repeat("U+1F60D", a) \o Repeat("U+1F621", b) \o Repeat("U+1F914", c) :
        a \in 0..MaxRun, b \in 0..MaxRun, c \in 0..MaxRun}

\* A post that consists of one entry of an emoji table.
TablePosts == PositiveEmojiTable \cup NegativeEmojiTable

Posts == SeqsUpTo(PostAlphabet, MaxPostLen) \cup RunPosts \cup TablePosts

InitEmoji ==
    /\ post \in Posts
    /\ emojiRes = <<>>
    /\ TablesBuilt
    /\ TextIdle
    /\ BatchIdle
    /\ ImageIdle
    /\ LookupIdle
    /\ EmojiBatchIdle
    /\ AudioIdle
    /\ VideoIdle

AnalyzeEmojiSentiment ==
    \E t \in {post, post \o post, post \o <<" ">> \o post} :
        /\ t \notin DOMAIN emojiRes
        /\ emojiRes' = emojiRes @@ (t :> analyze_emoji_sentiment(t))
        /\ UNCHANGED <<textVars, batchVars, tableVars, post, imageVars,
                   lookupVars, emojiBatchVars, audioVars, videoVars>>

NextEmoji == AnalyzeEmojiSentiment

SpecEmoji == InitEmoji /\ [][NextEmoji]_vars

-----------------------------------------------------------------------------
(***************************************************************************)
(* ImageAnalyzer                                                           *)
(*                                                                         *)
(* An image file is modelled by what the libraries report for it: whether  *)
(* the path exists, whether PIL and OpenCV can read it, the K-means        *)
(* clusters of its pixels (centre colour, share of the pixels) and the     *)
(* mean of its HSV value channel.  Percentages are in hundredths of a      *)
(* percent (the code rounds them to two decimals).  The hex, mood and      *)
(* face-detection fields of the result play no part in the sentiment and   *)
(* are left out.                                                           *)
(***************************************************************************)

\* _rgb_to_color_name, lines 95-122.
rgb_to_color_name(rgb) ==
    LET r == rgb[1]
        g == rgb[2]
        b == rgb[3]
    IN  IF r > 200 /\ g > 200 /\ b > 200 THEN "white"
        ELSE IF r < 50 /\ g < 50 /\ b < 50 THEN "black"
        ELSE IF r > 150 /\ g < 100 /\ b < 100 THEN "red"
        ELSE IF r > 200 /\ g > 150 /\ b < 100 THEN "orange"
        ELSE IF r > 200 /\ g > 200 /\ b < 100 THEN "yellow"
        ELSE IF r < 100 /\ g > 150 /\ b < 100 THEN "green"
        ELSE IF r < 100 /\ g < 100 /\ b > 150 THEN "blue"
        ELSE IF r > 150 /\ g < 100 /\ b > 150 THEN "purple"
        ELSE IF r > 200 /\ g > 100 /\ b > 150 THEN "pink"
        ELSE IF r > 100 /\ r < 200 /\ g > 100 /\ g < 200
                /\ b > 100 /\ b < 200 THEN "gray"
        ELSE IF r > 150 /\ g > 100 /\ b < 80 THEN "brown"
        ELSE "mixed"

\* list.sort(key=percentage, reverse=True): stable, largest share first.
RECURSIVE InsertByPercentage(_, _)
InsertByPercentage(sorted, c) ==
    IF sorted = <<>> THEN <<c>>
    ELSE IF Head(sorted).percentage >= c.percentage
         THEN <<Head(sorted)>> \o InsertByPercentage(Tail(sorted), c)
         ELSE <<c>> \o sorted

RECURSIVE SortByPercentage(_)
SortByPercentage(colors) ==
    IF colors = <<>> THEN <<>>
    ELSE InsertByPercentage(
            SortByPercentage(SubSeq(colors, 1, Len(colors) - 1)),
            colors[Len(colors)])

\* get_dominant_colors, lines 53-93: an error dict when OpenCV cannot read
\* the file, otherwise the named clusters sorted by share.
get_dominant_colors(img) ==
    IF ~img.cv2_reads THEN [error |-> "Could not load image"]
    ELSE [colors |->
            SortByPercentage(
                [i \in 1..Len(img.clusters) |->
                    [rgb |-> img.clusters[i].rgb,
                     color_name |-> rgb_to_color_name(img.clusters[i].rgb),
                     percentage |-> img.clusters[i].percentage]])]

\* analyze_brightness, lines 127-151.
analyze_brightness(img) ==
    IF ~img.cv2_reads THEN [error |-> "Could not load image"]
    ELSE [brightness_value |-> img.brightness,
          brightness_level |->
              IF img.brightness > 170 THEN "very_bright"
              ELSE IF img.brightness > 120 THEN "bright"
              ELSE IF img.brightness > 80 THEN "moderate"
              ELSE IF img.brightness > 40 THEN "dark"
              ELSE "very_dark",
          mood_suggestion |->
              IF img.brightness > 120 THEN "positive/energetic"
              ELSE "moody/dramatic"]

WarmNames == {"red", "orange", "yellow", "pink"}
CoolNames == {"blue", "green", "purple"}

\* sum(c['percentage'] for c in colors if c['color_name'] in names)
RECURSIVE SumPercentages(_, _)
SumPercentages(colors, names) ==
    IF colors = <<>> THEN 0
    ELSE (IF Head(colors).color_name \in names
          THEN Head(colors).percentage ELSE 0)
         + SumPercentages(Tail(colors), names)

\* The brightness thresholds taken inclusively.
ImageSentimentInclusive(warm_colors, cool_colors, brightness_value) ==
    IF warm_colors > cool_colors /\ brightness_value >= 120 THEN "positive"
    ELSE IF cool_colors > warm_colors /\ brightness_value <= 80
         THEN "negative"
    ELSE "neutral"

\* analyze_image, lines 222-227.
ImageSentiment(warm_colors, cool_colors, brightness_value) ==
    IF warm_colors > cool_colors /\ brightness_value > 120 THEN "positive"
    ELSE IF cool_colors > warm_colors /\ brightness_value < 80
         THEN "negative"
    ELSE "neutral"

\* analyze_image, lines 183-233.  A missing file returns an error dict.  A
\* file PIL cannot identify makes Image.open raise.  A file OpenCV cannot
\* read makes get_dominant_colors return its error dict, and summing
\* c['percentage'] over the keys of that dict raises TypeError.
analyze_image(img) ==
    IF ~img.exists
    THEN [status |-> "returned", error |-> "Image not found"]
    ELSE IF ~img.pil_opens
    THEN [status |-> "raised", exception |-> "UnidentifiedImageError"]
    ELSE IF ~img.cv2_reads
    THEN [status |-> "raised", exception |-> "TypeError"]
    ELSE LET colors == get_dominant_colors(img).colors
             brightness == analyze_brightness(img)
             warm_colors == SumPercentages(colors, WarmNames)
             cool_colors == SumPercentages(colors, CoolNames)
         IN  [status |-> "returned",
              error |-> "",
              dominant_colors |-> colors,
              brightness |-> brightness,
              image_sentiment |->
                  ImageSentiment(warm_colors, cool_colors,
                                 brightness.brightness_value),
              warm_color_percentage |-> warm_colors,
              cool_color_percentage |-> cool_colors]

-----------------------------------------------------------------------------
(***************************************************************************)
(* SpecImage: one image file is analysed.                                  *)
(***************************************************************************)

\* get_dominant_colors(image_path, n_colors=5): K-means always yields five
\* clusters.
NColors == 5

\* How many of the five clusters vary; the others are a white background
\* sharing what is left of the pixels.
MaxColors == 2

\* One centre colour per branch of _rgb_to_color_name that matters here:
\* red, orange, a pure yellow, green, blue, purple, pink, white, brown and a
\* colour no branch names.
CentreSamples ==
    {<<200, 50, 50>>, <<255, 165, 0>>, <<255, 255, 0>>, <<50, 200, 50>>,
     <<50, 50, 200>>, <<200, 50, 200>>, <<255, 150, 200>>,
     <<255, 255, 255>>, <<160, 120, 50>>, <<100, 100, 100>>}

\* 10%, 30% and 70% of the pixels.
ShareSamples == {1000, 3000, 7000}

\* Mean V-channel values around the thresholds 80 and 120.
BrightnessSamples == {40, 79, 80, 81, 119, 120, 121, 150}

Cluster(rgb, percentage) == [rgb |-> rgb, percentage |-> percentage]

RECURSIVE TotalShare(_)
TotalShare(clusters) ==
    IF clusters = <<>> THEN 0
    ELSE Head(clusters).percentage + TotalShare(Tail(clusters))

\* The varying clusters followed by the white background clusters.
WithBackground(clusters) ==
    clusters \o
        [i \in 1..(NColors - Len(clusters)) |->
            Cluster(<<255, 255, 255>>,
                    (10000 - TotalShare(clusters))
                        \div (NColors - Len(clusters)))]

ClusterLists ==
    {WithBackground(cs) :
        cs \in {c \in SeqsUpTo({Cluster(rgb, p) : rgb \in CentreSamples,
                                                  p \in ShareSamples},
                               MaxColors) :
                    TotalShare(c) <= 10000}}

ReadableImages ==
    {[exists |-> TRUE, pil_opens |-> TRUE, cv2_reads |-> TRUE,
      clusters |-> cs, brightness |-> v] :
        cs \in ClusterLists, v \in BrightnessSamples}

\* A missing file, and files that exist but that PIL, OpenCV or both fail to
\* decode.
UnreadableImages ==
    {[exists |-> e, pil_opens |-> p, cv2_reads |-> c,
      clusters |-> <<>>, brightness |-> 0] :
        e \in BOOLEAN, p \in BOOLEAN, c \in BOOLEAN} \ 
    {[exists |-> TRUE, pil_opens |-> TRUE, cv2_reads |-> TRUE,
      clusters |-> <<>>, brightness |-> 0]}

InitImage ==
    /\ image \in ReadableImages \cup
                    {i \in UnreadableImages :
                        ~i.exists => (~i.pil_opens /\ ~i.cv2_reads)}
    /\ imageRes = NoImageResult
    /\ TextIdle
    /\ BatchIdle
    /\ EmojiIdle
    /\ LookupIdle
    /\ EmojiBatchIdle
    /\ AudioIdle
    /\ VideoIdle

AnalyzeImage ==
    /\ imageRes = NoImageResult
    /\ imageRes' = analyze_image(image)
    /\ UNCHANGED <<textVars, batchVars, tableVars, emojiVars, image,
                   lookupVars, emojiBatchVars, audioVars, videoVars>>

NextImage == AnalyzeImage

SpecImage == InitImage /\ [][NextImage]_vars

-----------------------------------------------------------------------------
(***************************************************************************)
(* AudioAnalyzer                                                           *)
(*                                                                         *)
(* An audio file is modelled by what the libraries report for it: whether  *)
(* the path exists, whether the speech_recognition import succeeded, how   *)
(* the recogniser ends on the file (the text it recognised, modelled like  *)
(* every text by its lexical scores), whether the wave module can read the *)
(* file, and the two quantities the tone is estimated from, the zero       *)
(* crossing rate and the volume ratio, in hundredths.  A dict is a record  *)
(* holding exactly the keys the code sets.                                 *)
(***************************************************************************)

\* dict.get(key, default)
Get(d, key, default) == IF key \in DOMAIN d THEN d[key] ELSE default

\* The four tones of extract_audio_features, lines 126-133, as strings.
ExcitedEnergetic ==
    <<"e", "x", "c", "i", "t", "e", "d", "/",
      "e", "n", "e", "r", "g", "e", "t", "i", "c">>
CalmSubdued ==
    <<"c", "a", "l", "m", "/", "s", "u", "b", "d", "u", "e", "d">>
AssertiveAngry ==
    <<"a", "s", "s", "e", "r", "t", "i", "v", "e", "/",
      "a", "n", "g", "r", "y">>
NeutralConversational ==
    <<"n", "e", "u", "t", "r", "a", "l", "/",
      "c", "o", "n", "v", "e", "r", "s", "a", "t", "i", "o", "n", "a", "l">>

\* transcribe_audio, lines 40-76.  Only sr.UnknownValueError and
\* sr.RequestError are caught: the ValueError sr.AudioFile raises on a file
\* it cannot read as WAV, AIFF or FLAC leaves the method.
transcribe_audio(a) ==
    IF ~a.sr_available
    THEN [status |-> "returned",
          value |-> [error |-> "speech_recognition not installed",
                     transcription |-> NoText]]
    ELSE IF ~a.exists
    THEN [status |-> "returned",
          value |-> [error |-> "Audio file not found"]]
    ELSE CASE a.speech = "recognised" ->
                [status |-> "returned",
                 value |-> [transcription |-> a.transcript,
                            success |-> TRUE, engine |-> "google"]]
           [] a.speech = "unintelligible" ->
                [status |-> "returned",
                 value |-> [transcription |-> NoText, success |-> FALSE,
                            error |-> "Speech not recognized"]]
           [] a.speech = "service_down" ->
                [status |-> "returned",
                 value |-> [transcription |-> NoText, success |-> FALSE,
                            error |-> "API error"]]
           [] a.speech = "unreadable" ->
                [status |-> "raised", exception |-> "ValueError"]

\* extract_audio_features, lines 117-123: the volume level.
VolumeLevel(volume_ratio) ==
    IF volume_ratio > 30 THEN "loud"
    ELSE IF volume_ratio > 10 THEN "moderate"
    ELSE "quiet"

\* extract_audio_features, lines 125-133: the estimated tone.
EstimatedTone(zcr, volume_ratio) ==
    IF zcr > 10 /\ volume_ratio > 20 THEN ExcitedEnergetic
    ELSE IF zcr < 5 /\ volume_ratio < 10 THEN CalmSubdued
    ELSE IF volume_ratio > 30 THEN AssertiveAngry
    ELSE NeutralConversational

\* extract_audio_features, lines 81-147: every exception raised while the
\* file is read is caught and reported in the dict.
extract_audio_features(a) ==
    IF ~a.exists THEN [error |-> "File not found"]
    ELSE IF ~a.wav_readable THEN [error |-> "Error processing audio"]
    ELSE [zero_crossing_rate |-> a.zcr,
          volume_level |-> VolumeLevel(a.volume_ratio),
          estimated_tone |-> EstimatedTone(a.zcr, a.volume_ratio)]

ToneSentimentNeverNeutral(tone) ==
    IF IsSubstring(<<"e", "x", "c", "i", "t", "e", "d">>, tone)
       \/ IsSubstring(<<"e", "n", "e", "r", "g", "e", "t", "i", "c">>, tone)
    THEN "positive"
    ELSE "negative"

\* analyze_audio, lines 175-181: the sentiment read off the tone.
ToneSentiment(tone) ==
    IF IsSubstring(<<"e", "x", "c", "i", "t", "e", "d">>, tone)
       \/ IsSubstring(<<"e", "n", "e", "r", "g", "e", "t", "i", "c">>, tone)
    THEN "positive"
    ELSE IF IsSubstring(<<"a", "n", "g", "r", "y">>, tone) THEN "negative"
    ELSE "neutral"

AudioSentimentNeutralOnError(features) ==
    IF "error" \in DOMAIN features THEN "neutral"
    ELSE ToneSentiment(Get(features, "estimated_tone", <<>>))

\* analyze_audio, lines 171-181: the fallback on the acoustic features.
AudioSentiment(features) ==
    IF "error" \in DOMAIN features THEN "unknown"
    ELSE ToneSentiment(Get(features, "estimated_tone", <<>>))

analyze_audio_tone_first(a) ==
    LET features == extract_audio_features(a)
        transcription == transcribe_audio(a)
    IN  IF transcription.status = "raised" THEN transcription
        ELSE IF Get(transcription.value, "success", FALSE)
                /\ AudioSentiment(features) \in {"unknown", "neutral"}
        THEN [status |-> "returned",
              audio_features |-> features,
              transcription |-> transcription.value,
              text_sentiment |->
                  combined_sentiment(transcription.value.transcription)]
        ELSE [status |-> "returned",
              audio_features |-> features,
              transcription |-> transcription.value,
              audio_sentiment |-> AudioSentiment(features)]

analyze_audio_both_fields(a) ==
    LET features == extract_audio_features(a)
        transcription == transcribe_audio(a)
    IN  IF transcription.status = "raised" THEN transcription
        ELSE IF Get(transcription.value, "success", FALSE)
        THEN [status |-> "returned",
              audio_features |-> features,
              transcription |-> transcription.value,
              text_sentiment |->
                  combined_sentiment(transcription.value.transcription),
              audio_sentiment |-> AudioSentiment(features)]
        ELSE [status |-> "returned",
              audio_features |-> features,
              transcription |-> transcription.value,
              audio_sentiment |-> AudioSentiment(features)]

\* analyze_audio, lines 152-183.  The result dict is built from the features
\* and then the transcription; an exception leaving transcribe_audio leaves
\* analyze_audio.
analyze_audio(a) ==
    LET features == extract_audio_features(a)
        transcription == transcribe_audio(a)
    IN  IF transcription.status = "raised" THEN transcription
        ELSE IF Get(transcription.value, "success", FALSE)
        THEN [status |-> "returned",
              audio_features |-> features,
              transcription |-> transcription.value,
              text_sentiment |->
                  combined_sentiment(transcription.value.transcription)]
        ELSE [status |-> "returned",
              audio_features |-> features,
              transcription |-> transcription.value,
              audio_sentiment |-> AudioSentiment(features)]

-----------------------------------------------------------------------------
(***************************************************************************)
(* SpecAudio: two audio files carrying the same speech are analysed.       *)
(***************************************************************************)

\* What the recogniser makes of the speech in a recording.
Transcripts ==
    {Text("great", 85, 50), Text("awful", -60, -20), Text("fine", 0, 0),
     Text("edge", 5, 5)}

\* Zero crossing rates and volume ratios on both sides of every threshold of
\* the tone estimate.
ZcrSamples == {4, 5, 10, 11}
VolumeSamples == {9, 10, 20, 21, 30, 31}

Recording(sr, speech, transcript, readable, zcr, volume_ratio) ==
    [exists |-> TRUE, sr_available |-> sr, speech |-> speech,
     transcript |-> transcript, wav_readable |-> readable, zcr |-> zcr,
     volume_ratio |-> volume_ratio]

\* A path with no file behind it.
MissingAudio(sr) ==
    [exists |-> FALSE, sr_available |-> sr, speech |-> "unreadable",
     transcript |-> NoText, wav_readable |-> FALSE, zcr |-> 0,
     volume_ratio |-> 0]

Speeches ==
    {<<"recognised", t>> : t \in Transcripts} \cup
    {<<"unintelligible", NoText>>, <<"service_down", NoText>>,
     <<"unreadable", NoText>>}

AudioFiles ==
    {MissingAudio(sr) : sr \in BOOLEAN} \cup
    {Recording(sr, sp[1], sp[2], TRUE, z, v) :
        sr \in BOOLEAN, sp \in Speeches, z \in ZcrSamples,
        v \in VolumeSamples} \cup
    {Recording(sr, sp[1], sp[2], FALSE, 0, 0) :
        sr \in BOOLEAN, sp \in Speeches}

\* The same speech, heard by the same recogniser.
SameSpeech(a, b) ==
    /\ a.exists = b.exists
    /\ a.sr_available = b.sr_available
    /\ a.speech = b.speech
    /\ a.transcript = b.transcript

InitAudio ==
    /\ audio \in AudioFiles
    /\ audio2 \in {b \in AudioFiles : SameSpeech(audio, b)}
    /\ audioRes = <<>>
    /\ TextIdle
    /\ BatchIdle
    /\ EmojiIdle
    /\ ImageIdle
    /\ LookupIdle
    /\ EmojiBatchIdle
    /\ VideoIdle

AnalyzeAudio ==
    \E a \in {audio, audio2} :
        /\ a \notin DOMAIN audioRes
        /\ audioRes' = audioRes @@ (a :> analyze_audio(a))
        /\ UNCHANGED <<textVars, batchVars, tableVars, emojiVars, imageVars,
                       lookupVars, emojiBatchVars, audio, audio2, videoVars>>

NextAudio == AnalyzeAudio

SpecAudio == InitAudio /\ [][NextAudio]_vars

-----------------------------------------------------------------------------
(***************************************************************************)
(* VideoAnalyzer                                                           *)
(*                                                                         *)
(* A video file is modelled by what OpenCV reports for it: whether the     *)
(* path exists, whether VideoCapture opens it, the frame count it reports, *)
(* the key frames cap.read() delivers (each modelled as the image file     *)
(* cv2.imwrite makes of it, a missing file when the write fails) and the   *)
(* motion scores of the sampled frame pairs, in hundredths.  Whether the   *)
(* caller passed an output_dir belongs to the call and is kept with the    *)
(* file.  detect_scene_changes returns a dict that plays no part in the    *)
(* sentiment or the energy level and is left out.                          *)
(***************************************************************************)

\* analyze_video calls extract_key_frames with num_frames=5.
NumKeyFrames == 5

\* extract_key_frames, lines 35-86.  frame_paths is filled only when an
\* output_dir was given.
extract_key_frames(v, num_frames, output_dir) ==
    IF ~v.exists THEN [error |-> "Video not found"]
    ELSE IF v.total_frames = 0
    THEN [error |-> "Could not read video frames"]
    ELSE LET frames == IF Len(v.frames) <= num_frames THEN v.frames
                       ELSE SubSeq(v.frames, 1, num_frames)
         IN  [total_frames |-> v.total_frames,
              extracted_frames |-> frames,
              frame_paths |-> IF output_dir THEN frames ELSE <<>>,
              num_extracted |-> Len(frames)]

RECURSIVE SumSeq(_)
SumSeq(scores) ==
    IF scores = <<>> THEN 0 ELSE Head(scores) + SumSeq(Tail(scores))

ActivityLevelInclusive(scores) ==
    IF SumSeq(scores) >= 2000 * Len(scores) THEN "high_activity"
    ELSE IF SumSeq(scores) >= 800 * Len(scores) THEN "moderate_activity"
    ELSE "low_activity"

\* analyze_motion, lines 175-185: np.mean(scores) against 20 and 8.
ActivityLevel(scores) ==
    IF SumSeq(scores) > 2000 * Len(scores) THEN "high_activity"
    ELSE IF SumSeq(scores) > 800 * Len(scores) THEN "moderate_activity"
    ELSE "low_activity"

\* analyze_motion, lines 138-196.
analyze_motion(v) ==
    IF ~v.opens THEN [error |-> "Could not open video"]
    ELSE IF v.motion # <<>>
    THEN [average_motion |-> [num |-> SumSeq(v.motion),
                              den |-> Len(v.motion)],
          activity_level |-> ActivityLevel(v.motion)]
    ELSE [average_motion |-> [num |-> 0, den |-> 1],
          activity_level |-> "unknown"]

MostCommonLastKey(items) ==
    LET counts == CounterOf(items)
        keys == InsertionOrder(items)
        best == CHOOSE i \in 1..Len(keys) :
                    \A j \in 1..Len(keys) :
                        /\ counts[keys[j]] <= counts[keys[i]]
                        /\ j > i => counts[keys[j]] < counts[keys[i]]
    IN  keys[best]

\* Counter(items).most_common(1)[0][0]: heapq.nlargest(1, ...) is max() over
\* the items in insertion order, which keeps the first of several maxima.
MostCommon(items) ==
    LET counts == CounterOf(items)
        keys == InsertionOrder(items)
        best == CHOOSE i \in 1..Len(keys) :
                    \A j \in 1..Len(keys) :
                        /\ counts[keys[j]] <= counts[keys[i]]
                        /\ j < i => counts[keys[j]] < counts[keys[i]]
    IN  keys[best]

FrameSentimentsErrorsSkipped(frame_paths) ==
    LET Scored(frame_path) ==
            "image_sentiment" \in DOMAIN analyze_image(frame_path)
        scored == SelectSeq(frame_paths, Scored)
    IN  [i \in 1..Len(scored) |-> analyze_image(scored[i]).image_sentiment]

\* analyze_video, lines 221-224: the sentiment of each frame file, 'neutral'
\* when the image result has no image_sentiment.
FrameSentiments(frame_paths) ==
    [i \in 1..Len(frame_paths) |->
        Get(analyze_image(frame_paths[i]), "image_sentiment", "neutral")]

VisualSentimentNeutralWhenEmpty(frame_sentiments) ==
    IF frame_sentiments # <<>>
    THEN [frame_sentiments |-> frame_sentiments,
          distribution |-> CounterOf(frame_sentiments),
          dominant_sentiment |-> MostCommon(frame_sentiments)]
    ELSE [dominant_sentiment |-> "neutral"]

\* analyze_video, lines 226-235.
VisualSentiment(frame_sentiments) ==
    IF frame_sentiments # <<>>
    THEN [frame_sentiments |-> frame_sentiments,
          distribution |-> CounterOf(frame_sentiments),
          dominant_sentiment |-> MostCommon(frame_sentiments)]
    ELSE [dominant_sentiment |-> "unknown"]

EnergyLevelUnknownKept(activity) ==
    IF activity = "high_activity" THEN "high"
    ELSE IF activity = "low_activity" THEN "low"
    ELSE IF activity = "unknown" THEN "unknown"
    ELSE "moderate"

\* analyze_video, lines 237-244.
EnergyLevel(activity) ==
    IF activity = "high_activity" THEN "high"
    ELSE IF activity = "low_activity" THEN "low"
    ELSE "moderate"

analyze_video_energy_merged(v) ==
    IF ~v.exists THEN [status |-> "returned", error |-> "Video not found"]
    ELSE LET key_frames == extract_key_frames(v, NumKeyFrames, v.output_dir)
             motion_analysis == analyze_motion(v)
             frame_paths == Get(key_frames, "frame_paths", <<>>)
             activity == Get(motion_analysis, "activity_level", "unknown")
             visual == VisualSentiment(FrameSentiments(frame_paths))
         IN  [status |-> "returned",
              key_frames |-> key_frames,
              motion_analysis |-> motion_analysis,
              visual_sentiment |->
                  IF activity = "high_activity"
                  THEN [visual EXCEPT !.dominant_sentiment = "positive"]
                  ELSE visual,
              energy_level |-> EnergyLevel(activity)]

\* analyze_video, lines 201-246.  An exception leaving analyze_image for a
\* frame file leaves analyze_video.
analyze_video(v) ==
    IF ~v.exists THEN [status |-> "returned", error |-> "Video not found"]
    ELSE LET key_frames == extract_key_frames(v, NumKeyFrames, v.output_dir)
             motion_analysis == analyze_motion(v)
             frame_paths == Get(key_frames, "frame_paths", <<>>)
             activity == Get(motion_analysis, "activity_level", "unknown")
         IN  IF \E i \in 1..Len(frame_paths) :
                    analyze_image(frame_paths[i]).status = "raised"
             THEN [status |-> "raised", exception |-> "TypeError"]
             ELSE [status |-> "returned",
                   key_frames |-> key_frames,
                   motion_analysis |-> motion_analysis,
                   visual_sentiment |->
                       VisualSentiment(FrameSentiments(frame_paths)),
                   energy_level |-> EnergyLevel(activity)]

-----------------------------------------------------------------------------
(***************************************************************************)
(* SpecVideo: two video files that differ in their motion only, or in      *)
(* their key frames only, are analysed.                                    *)
(***************************************************************************)

FrameImage(rgb, brightness) ==
    [exists |-> TRUE, pil_opens |-> TRUE, cv2_reads |-> TRUE,
     clusters |-> WithBackground(<<Cluster(rgb, 7000)>>),
     brightness |-> brightness]

\* A bright red frame, a dark blue frame, a grey frame, and the file of a
\* frame cv2.imwrite failed to write.
WarmFrame == FrameImage(<<200, 50, 50>>, 150)
CoolFrame == FrameImage(<<50, 50, 200>>, 40)
GreyFrame == FrameImage(<<100, 100, 100>>, 119)
UnwrittenFrame == NoImage

FrameKinds == {WarmFrame, CoolFrame, GreyFrame, UnwrittenFrame}

\* Motion scores of the sampled frame pairs: none, and means below, at and
\* above the thresholds 8 and 20.
MotionSamples ==
    {<<>>, <<500>>, <<800>>, <<801>>, <<2000>>, <<2001>>, <<4000>>,
     <<1600, 1>>, <<2000, 2001>>, <<4000, 0>>}

VideoFile(opens, total_frames, frames, motion, output_dir) ==
    [exists |-> TRUE, opens |-> opens, total_frames |-> total_frames,
     frames |-> frames, motion |-> motion, output_dir |-> output_dir]

\* A path with no file behind it.
MissingVideo(output_dir) ==
    [exists |-> FALSE, opens |-> FALSE, total_frames |-> 0,
     frames |-> <<>>, motion |-> <<>>, output_dir |-> output_dir]

\* Files OpenCV cannot open, files it opens but whose frame count it reports
\* as 0, and files from which it reads up to five key frames.
VideoFiles ==
    {MissingVideo(o) : o \in BOOLEAN} \cup
    {VideoFile(FALSE, 0, <<>>, <<>>, o) : o \in BOOLEAN} \cup
    {VideoFile(TRUE, 0, <<>>, m, o) : m \in MotionSamples, o \in BOOLEAN} \cup
    {VideoFile(TRUE, 150, f, m, o) :
        f \in SeqsUpTo(FrameKinds, NumKeyFrames), m \in MotionSamples,
        o \in BOOLEAN}

\* The same file with other motion, or with other key frames.
MotionVariants(v) ==
    {[v EXCEPT !.motion = m] : m \in {<<801>>, <<4000>>}}
FrameVariants(v) ==
    {[v EXCEPT !.frames = f] :
        f \in {<<WarmFrame>>, <<CoolFrame, CoolFrame>>}}

InitVideo ==
    /\ video \in VideoFiles
    /\ video2 \in IF video.exists /\ video.opens /\ video.total_frames # 0
                  THEN MotionVariants(video) \cup FrameVariants(video)
                  ELSE {video}
    /\ videoRes = <<>>
    /\ TextIdle
    /\ BatchIdle
    /\ EmojiIdle
    /\ ImageIdle
    /\ LookupIdle
    /\ EmojiBatchIdle
    /\ AudioIdle

AnalyzeVideo ==
    \E v \in {video, video2} :
        /\ v \notin DOMAIN videoRes
        /\ videoRes' = videoRes @@ (v :> analyze_video(v))
        /\ UNCHANGED <<textVars, batchVars, tableVars, emojiVars, imageVars,
                       lookupVars, emojiBatchVars, audioVars, video, video2>>

NextVideo == AnalyzeVideo

SpecVideo == InitVideo /\ [][NextVideo]_vars

-----------------------------------------------------------------------------
(***************************************************************************)
(* SpecMedia: the image, the audio file and the video file attached to one *)
(* post are analysed, each by its analyzer.  The files are missing, or     *)
(* present but not decodable, or (one of each kind) in good order.         *)
(***************************************************************************)

MediaImages ==
    {i \in UnreadableImages : ~i.exists => (~i.pil_opens /\ ~i.cv2_reads)}
    \cup {WarmFrame}

MediaAudios ==
    {a \in AudioFiles : ~a.exists \/ ~a.wav_readable} \cup
    {Recording(TRUE, "recognised", Text("great", 85, 50), TRUE, 11, 31)}

MediaVideos ==
    {v \in VideoFiles : ~v.exists \/ v.frames = <<>>} \cup
    {VideoFile(TRUE, 150, <<WarmFrame, CoolFrame>>, <<801>>, TRUE)}

InitMedia ==
    /\ image \in MediaImages
    /\ imageRes = NoImageResult
    /\ audio \in MediaAudios
    /\ audio2 = audio
    /\ audioRes = <<>>
    /\ video \in MediaVideos
    /\ video2 = video
    /\ videoRes = <<>>
    /\ TextIdle
    /\ BatchIdle
    /\ EmojiIdle
    /\ LookupIdle
    /\ EmojiBatchIdle

NextMedia ==
    \/ AnalyzeImage
    \/ AnalyzeAudio
    \/ AnalyzeVideo

SpecMedia == InitMedia /\ [][NextMedia]_vars

-----------------------------------------------------------------------------
(***************************************************************************)
(* SpecBatches: one list of posts is handed to TextAnalyzer.analyze_batch  *)
(* and to EmojiAnalyzer.analyze_batch, as run_text_analysis and            *)
(* run_emoji_analysis of main.py do.  An element of the list may fail to   *)
(* be a str.                                                               *)
(***************************************************************************)

\* The longest list of posts.
MaxPosts == 3

\* The characters of the posts of BatchTexts.
CharsOf(id) ==
    CASE id = "a" -> <<"U+1F60D">>
      [] id = "b" -> <<"U+1F621", ":", "(">>
      [] id = "c" -> <<"a">>
      [] id = "d" -> <<"U+1F60D", "U+1F914">>
      [] OTHER -> <<":", "(">>

\* What EmojiAnalyzer is handed for a list element.
EmojiUnit(t) == IF IsStr(t) THEN [chars |-> CharsOf(t.id)] ELSE NotAString

InitBatches ==
    /\ texts \in SeqsUpTo(BatchTexts \cup {NotAString}, MaxPosts)
    /\ posts = [i \in 1..Len(texts) |-> EmojiUnit(texts[i])]
    /\ df = NoDf
    /\ summary = NoSummary
    /\ emojiBatchRes = NoBatchResult
    /\ TextIdle
    /\ EmojiIdle
    /\ ImageIdle
    /\ LookupIdle
    /\ AudioIdle
    /\ VideoIdle

EmojiAnalyzeBatch ==
    /\ emojiBatchRes = NoBatchResult
    /\ emojiBatchRes' = emoji_analyze_batch(posts)
    /\ UNCHANGED <<textVars, batchVars, tableVars, emojiVars, imageVars,
                   lookupVars, posts, audioVars, videoVars>>

NextBatches ==
    \/ AnalyzeBatch
    \/ EmojiAnalyzeBatch

SpecBatches == InitBatches /\ [][NextBatches]_vars

-----------------------------------------------------------------------------
(***************************************************************************)
(* SpecLookup: _get_emoji_sentiment is called on one string.               *)
(***************************************************************************)

\* Every entry of the two emoji tables, and strings in neither: the thinking
\* face, a letter, the empty string, the red heart without its variation
\* selector, a positive emoji written twice, an emoticon.
LookupArgs ==
    PositiveEmojiTable \cup NegativeEmojiTable \cup
    {<<"U+1F914">>, <<"a">>, <<>>, <<"U+2764">>,
     <<"U+1F60D", "U+1F60D">>, <<":", ")">>}

InitLookup ==
    /\ lookupArg \in LookupArgs
    /\ lookupRes = NoLookup
    /\ TextIdle
    /\ BatchIdle
    /\ EmojiIdle
    /\ ImageIdle
    /\ EmojiBatchIdle
    /\ AudioIdle
    /\ VideoIdle

GetEmojiSentiment ==
    /\ lookupRes = NoLookup
    /\ lookupRes' = get_emoji_sentiment(lookupArg)
    /\ UNCHANGED <<textVars, batchVars, tableVars, emojiVars, imageVars,
                   lookupArg, emojiBatchVars, audioVars, videoVars>>

NextLookup == GetEmojiSentiment

SpecLookup == InitLookup /\ [][NextLookup]_vars

-----------------------------------------------------------------------------
(***************************************************************************)
(* SpecSession: one TextAnalyzer and one EmojiAnalyzer serve a sequence of *)
(* calls.  Each variable that holds results maps an input to the results   *)
(* of the calls made on it so far, oldest first.                           *)
(***************************************************************************)

\* The number of calls of a session.
MaxCalls == 3

SessionPosts == {<<"U+1F60D">>, <<"U+1F621", ":", "(">>, <<"a">>}

SessionTexts == {Text("a", 85, 50), Text("b", -60, -20)}

\* Lists of posts handed to EmojiAnalyzer.analyze_batch.
SessionBatches ==
    {<<>>,
     <<[chars |-> <<"U+1F60D">>]>>,
     <<[chars |-> <<"U+1F60D">>], [chars |-> <<"U+1F621", ":", "(">>]>>,
     <<[chars |-> <<"a">>], [chars |-> <<"U+1F621", ":", "(">>]>>}

\* The DataFrames TextAnalyzer.analyze_batch builds for lists of
\* SessionTexts.
SessionFrames ==
    {analyze_batch(ts) :
        ts \in {<<>>, <<Text("a", 85, 50)>>,
                <<Text("a", 85, 50), Text("b", -60, -20)>>,
                <<Text("b", -60, -20), Text("b", -60, -20)>>}}

RECURSIVE CallsIn(_, _)
CallsIn(log, inputs) ==
    IF inputs = {} THEN 0
    ELSE LET x == CHOOSE x \in inputs : TRUE
         IN  Len(log[x]) + CallsIn(log, inputs \ {x})

CallsMade ==
    CallsIn(emojiRes, DOMAIN emojiRes)
    + CallsIn(emojiBatchRes, DOMAIN emojiBatchRes)
    + CallsIn(combRes, DOMAIN combRes)
    + CallsIn(summary, DOMAIN summary)

Logged(log, x, result) ==
    IF x \in DOMAIN log
    THEN [log EXCEPT ![x] = Append(@, result)]
    ELSE log @@ (x :> <<result>>)

InitSession ==
    /\ TablesBuilt
    /\ emojiRes = <<>>
    /\ emojiBatchRes = <<>>
    /\ combRes = <<>>
    /\ summary = <<>>
    /\ post = <<>>
    /\ posts = <<>>
    /\ text = NoText
    /\ vaderRes = NoResult
    /\ blobRes = NoResult
    /\ texts = <<>>
    /\ df = NoDf
    /\ ImageIdle
    /\ LookupIdle
    /\ AudioIdle
    /\ VideoIdle

SessionAnalyzeEmojiSentiment ==
    \E t \in SessionPosts :
        /\ CallsMade < MaxCalls
        /\ emojiRes' = Logged(emojiRes, t, analyze_emoji_sentiment(t))
        /\ UNCHANGED <<textVars, batchVars, tableVars, post, imageVars,
                       lookupVars, emojiBatchVars, audioVars, videoVars>>

SessionEmojiAnalyzeBatch ==
    \E ps \in SessionBatches :
        /\ CallsMade < MaxCalls
        /\ emojiBatchRes' = Logged(emojiBatchRes, ps, emoji_analyze_batch(ps))
        /\ UNCHANGED <<textVars, batchVars, tableVars, emojiVars, imageVars,
                       lookupVars, posts, audioVars, videoVars>>

SessionCombinedSentiment ==
    \E t \in SessionTexts :
        /\ CallsMade < MaxCalls
        /\ combRes' = Logged(combRes, t, combined_sentiment(t))
        /\ UNCHANGED <<text, vaderRes, blobRes, batchVars, tableVars,
                       emojiVars, imageVars, lookupVars, emojiBatchVars,
                       audioVars, videoVars>>

SessionGetSentimentSummary ==
    \E d \in SessionFrames :
        /\ CallsMade < MaxCalls
        /\ summary' = Logged(summary, d, get_sentiment_summary(d))
        /\ UNCHANGED <<textVars, texts, df, tableVars, emojiVars, imageVars,
                       lookupVars, emojiBatchVars, audioVars, videoVars>>

NextSession ==
    \/ SessionAnalyzeEmojiSentiment
    \/ SessionEmojiAnalyzeBatch
    \/ SessionCombinedSentiment
    \/ SessionGetSentimentSummary

SpecSession == InitSession /\ [][NextSession]_vars

-----------------------------------------------------------------------------
(***************************************************************************)
(* SpecPalette: _rgb_to_color_name is called on one RGB triple after       *)
(* another; imageRes holds the set of colour names returned so far.        *)
(***************************************************************************)

\* One channel value for each way a value of 0..255 compares with the
\* thresholds 50, 80, 100, 150 and 200 of _rgb_to_color_name: below 50,
\* 50..79, 80..99, 100, 101..149, 150, 151..199, 200, above 200.
ChannelSamples == {25, 65, 90, 100, 125, 150, 175, 200, 230}

RgbSamples ==
    {<<r, g, b>> :
        r \in ChannelSamples, g \in ChannelSamples, b \in ChannelSamples}

InitPalette ==
    /\ image = NoImage
    /\ imageRes = {}
    /\ TextIdle
    /\ BatchIdle
    /\ EmojiIdle
    /\ LookupIdle
    /\ EmojiBatchIdle
    /\ AudioIdle
    /\ VideoIdle

RgbToColorName ==
    \E rgb \in RgbSamples :
        /\ imageRes' = imageRes \cup {rgb_to_color_name(rgb)}
        /\ UNCHANGED <<textVars, batchVars, tableVars, emojiVars, image,
                       lookupVars, emojiBatchVars, audioVars, videoVars>>

NextPalette == RgbToColorName

SpecPalette == InitPalette /\ [][NextPalette]_vars

-----------------------------------------------------------------------------
(***************************************************************************)
(* Properties of the text scorers (checked under SpecText)                 *)
(***************************************************************************)

\* C1: combined_score is exactly 0.6*social + 0.4*general (in thousandths:
\* 6*compound + 4*polarity) and confidence is its absolute value, for every
\* pair in [-1,1]x[-1,1]; social 0.85 and general 0.5 give 0.71, Positive,
\* confidence 0.71.
C1_CombinedIsWeightedSum ==
    combRes # NoResult =>
        /\ combRes.combined_score = 6 * text.compound + 4 * text.polarity
        /\ combRes.confidence >= 0
        /\ combRes.confidence \in {combRes.combined_score,
                                   -combRes.combined_score}
        /\ (text.compound = 85 /\ text.polarity = 50) =>
               /\ combRes.combined_score = 710
               /\ combRes.label = "Positive"
               /\ combRes.confidence = 710

\* C1 witness: the spec's example text (0.85, 0.5) has been scored.
C1_Witness ==
    /\ combRes # NoResult
    /\ text.compound = 85
    /\ text.polarity = 50
    /\ combRes.combined_score = 710

\* C2: the label of combined_sentiment is a step function of the combined
\* score alone: Positive iff combined >= 0.05, Negative iff combined <= -0.05,
\* Neutral otherwise; every other (social, general) pair with the same
\* combined score gets the same label.
C2_LabelIsStepOfCombined ==
    combRes # NoResult =>
        /\ combRes.label \in {"Positive", "Negative", "Neutral"}
        /\ combRes.label = "Positive" <=> combRes.combined_score >= 50
        /\ combRes.label = "Negative" <=> combRes.combined_score <= -50
        /\ \A s2 \in Scores :
              LET rest == combRes.combined_score - 6 * s2
              IN  (rest % 4 = 0 /\ (rest \div 4) \in Scores) =>
                    combined_sentiment(Text("u", s2, rest \div 4)).label
                        = combRes.label

\* C2 witness: a combined score of exactly 0.05 reached from two different
\* raw scores (0.01 and 0.11), labelled Positive.
C2_Witness ==
    /\ combRes # NoResult
    /\ combRes.combined_score = 50
    /\ text.compound = 1
    /\ text.polarity = 11
    /\ combRes.label = "Positive"

\* C3: the three labelers agree on every score value: when VADER's compound,
\* TextBlob's polarity and the combined score are the same number s (a text
\* whose compound and polarity are both s has combined score s), all three
\* labels are equal, at 0.05 and -0.05 too.
C3_SameThresholdsEverywhere ==
    /\ (vaderRes # NoResult /\ blobRes # NoResult
            /\ vaderRes.compound = blobRes.polarity)
        => vaderRes.label = blobRes.label
    /\ (combRes # NoResult /\ blobRes # NoResult
            /\ combRes.combined_score = 10 * blobRes.polarity)
        => combRes.label = blobRes.label
    /\ (combRes # NoResult /\ vaderRes # NoResult
            /\ combRes.combined_score = 10 * vaderRes.compound)
        => combRes.label = vaderRes.label

-----------------------------------------------------------------------------
(***************************************************************************)
(* Properties of the batch aggregator (checked under SpecBatch)            *)
(***************************************************************************)

\* The label a text of the batch carries, from its raw scores.
LabelOf(t) ==
    LET c == 6 * t.compound + 4 * t.polarity
    IN  IF c >= 50 THEN "Positive"
        ELSE IF c <= -50 THEN "Negative" ELSE "Neutral"

UnitsLabelled(l) == Cardinality({i \in 1..Len(texts) : LabelOf(texts[i]) = l})

\* C4: analyze_batch([]) followed by get_sentiment_summary completes without
\* a fault and returns total_posts = 0 and the three percentages equal to 0.
C4_EmptyBatchSummary ==
    (texts = <<>> /\ df.built /\ summary # NoSummary) =>
        /\ summary.status = "returned"
        /\ summary.total_posts = 0
        /\ summary.positive_percentage.num = 0
        /\ summary.negative_percentage.num = 0
        /\ summary.neutral_percentage.num = 0

\* C5: for a non-empty batch, total_posts is the number of units, each count
\* is the number of units carrying that label, and each percentage is
\* count / total * 100; labels [Positive, Negative, Neutral, Positive,
\* Positive] give 3 (60%), 1 (20%), 1 (20%).
C5_CountsAndPercentages ==
    (texts # <<>> /\ summary # NoSummary) =>
        /\ summary.status = "returned"
        /\ summary.total_posts = Len(texts)
        /\ summary.positive_count = UnitsLabelled("Positive")
        /\ summary.negative_count = UnitsLabelled("Negative")
        /\ summary.neutral_count = UnitsLabelled("Neutral")
        /\ summary.positive_percentage.den > 0
        /\ summary.negative_percentage.den > 0
        /\ summary.neutral_percentage.den > 0
        /\ summary.positive_percentage.num * Len(texts)
              = UnitsLabelled("Positive") * 100
                    * summary.positive_percentage.den
        /\ summary.negative_percentage.num * Len(texts)
              = UnitsLabelled("Negative") * 100
                    * summary.negative_percentage.den
        /\ summary.neutral_percentage.num * Len(texts)
              = UnitsLabelled("Neutral") * 100
                    * summary.neutral_percentage.den
        /\ (Len(texts) = 5
              /\ [i \in 1..5 |-> LabelOf(texts[i])]
                   = <<"Positive", "Negative", "Neutral",
                       "Positive", "Positive">>) =>
               /\ summary.positive_count = 3
               /\ summary.positive_percentage.num
                     = 60 * summary.positive_percentage.den
               /\ summary.negative_count = 1
               /\ summary.negative_percentage.num
                     = 20 * summary.negative_percentage.den
               /\ summary.neutral_count = 1
               /\ summary.neutral_percentage.num
                     = 20 * summary.neutral_percentage.den

\* C5 witness: the spec's five-unit example has been summarised.
C5_Witness ==
    /\ summary.status = "returned"
    /\ Len(texts) = 5
    /\ [i \in 1..5 |-> LabelOf(texts[i])]
          = <<"Positive", "Negative", "Neutral", "Positive", "Positive">>
    /\ summary.positive_count = 3

ScoreOf(t) == 6 * t.compound + 4 * t.polarity

\* C6: for a non-empty batch, most_positive is the text of the first unit, in
\* input order, whose combined score is the maximum, and most_negative the
\* text of the first unit whose combined score is the minimum.
C6_ExtremesFirstOccurrence ==
    (texts # <<>> /\ summary # NoSummary) =>
        /\ summary.status = "returned"
        /\ \E i \in 1..Len(texts) :
              /\ summary.most_positive = texts[i].id
              /\ \A j \in 1..Len(texts) : ScoreOf(texts[j]) <= ScoreOf(texts[i])
              /\ \A j \in 1..(i - 1) : ScoreOf(texts[j]) < ScoreOf(texts[i])
        /\ \E i \in 1..Len(texts) :
              /\ summary.most_negative = texts[i].id
              /\ \A j \in 1..Len(texts) : ScoreOf(texts[j]) >= ScoreOf(texts[i])
              /\ \A j \in 1..(i - 1) : ScoreOf(texts[j]) > ScoreOf(texts[i])

\* C6 witness: two different texts tie for the maximum (d before a) and two
\* for the minimum (e before b); the earlier one of each pair is reported.
C6_Witness ==
    /\ summary.status = "returned"
    /\ Len(texts) = 4
    /\ texts[1].id = "d" /\ texts[2].id = "e"
    /\ texts[3].id = "a" /\ texts[4].id = "b"
    /\ summary.most_positive = "d"
    /\ summary.most_negative = "e"

-----------------------------------------------------------------------------
(***************************************************************************)
(* Properties of symbolic fusion (checked under SpecEmoji)                 *)
(***************************************************************************)

\* The matches a result reports, counted by polarity from its two lists.
Matches(r, s) ==
    Cardinality({i \in 1..Len(r.emojis_found) :
                    r.emojis_found[i].sentiment = s})
    + Cardinality({i \in 1..Len(r.emoticons_found) :
                    r.emoticons_found[i].sentiment = s})

TotalMatches(r) == r.total_emoji_count + r.total_emoticon_count

\* C7: with no emoji and no emoticon match the score is exactly 0 and the
\* label is 'no_emoji'; with at least one match the label is one of
\* positive/negative/neutral and never 'no_emoji'.
C7_NoEmojiIffNoMatch ==
    \A t \in DOMAIN emojiRes :
        LET r == emojiRes[t]
        IN  /\ TotalMatches(r) = 0 =>
                  /\ r.emoji_sentiment_score.num = 0
                  /\ r.overall_emoji_sentiment = "no_emoji"
            /\ TotalMatches(r) > 0 =>
                  r.overall_emoji_sentiment
                      \in {"positive", "negative", "neutral"}

\* C7 witness: a post whose two symbols (a positive emoji, the emoticon :( )
\* balance out has score 0 and is 'neutral', not 'no_emoji'.
C7_Witness ==
    /\ post = <<"U+1F60D", ":", "(">>
    /\ post \in DOMAIN emojiRes
    /\ TotalMatches(emojiRes[post]) = 2
    /\ emojiRes[post].emoji_sentiment_score.num = 0
    /\ emojiRes[post].overall_emoji_sentiment = "neutral"

\* C8: with at least one match, score = (positive - negative) / total where
\* total counts the neutral matches too, and the label is positive iff
\* score > 0.1, negative iff score < -0.1, neutral otherwise; two positive
\* and one negative of three give 1/3 and positive.
C8_ScoreAndStrictThresholds ==
    \A t \in DOMAIN emojiRes :
        LET r == emojiRes[t]
            pos == Matches(r, "positive")
            neg == Matches(r, "negative")
            total == Len(r.emojis_found) + Len(r.emoticons_found)
            score == r.emoji_sentiment_score
        IN  total > 0 =>
              /\ score.den > 0
              /\ score.num * total = (pos - neg) * score.den
              /\ r.overall_emoji_sentiment = "positive"
                    <=> 10 * (pos - neg) > total
              /\ r.overall_emoji_sentiment = "negative"
                    <=> 10 * (pos - neg) < -total
              /\ r.overall_emoji_sentiment = "neutral"
                    <=> (10 * (pos - neg) <= total
                            /\ 10 * (pos - neg) >= -total)
              /\ (pos = 2 /\ neg = 1 /\ total = 3) =>
                    /\ 3 * score.num = score.den
                    /\ r.overall_emoji_sentiment = "positive"

\* C8 witness: five positive, four negative and one neutral emoji score
\* exactly 0.1, which is not above the threshold: neutral.
C8_Witness ==
    /\ post \in DOMAIN emojiRes
    /\ Matches(emojiRes[post], "positive") = 5
    /\ Matches(emojiRes[post], "negative") = 4
    /\ Matches(emojiRes[post], "neutral") = 1
    /\ emojiRes[post].emoji_sentiment_score.num * 10
          = emojiRes[post].emoji_sentiment_score.den
    /\ emojiRes[post].overall_emoji_sentiment = "neutral"

\* Every polarity's match count in b is twice its count in a.
CountsDoubled(a, b) ==
    \A s \in {"positive", "negative", "neutral"} :
        Matches(b, s) = 2 * Matches(a, s)

\* C9: when every matched symbol's count is doubled (positive, negative and
\* neutral alike), the symbolic score and the symbolic label are unchanged.
C9_ScaleInvariant ==
    \A t1 \in DOMAIN emojiRes : \A t2 \in DOMAIN emojiRes :
        CountsDoubled(emojiRes[t1], emojiRes[t2]) =>
            /\ emojiRes[t1].emoji_sentiment_score.num
                    * emojiRes[t2].emoji_sentiment_score.den
                = emojiRes[t2].emoji_sentiment_score.num
                    * emojiRes[t1].emoji_sentiment_score.den
            /\ emojiRes[t1].overall_emoji_sentiment
                = emojiRes[t2].overall_emoji_sentiment

\* C9 witness: a post with two positive, one negative and one neutral emoji
\* and the post with twice as many of each have both been scored.
C9_Witness ==
    \E t1 \in DOMAIN emojiRes : \E t2 \in DOMAIN emojiRes :
        /\ t1 # t2
        /\ Matches(emojiRes[t1], "positive") = 2
        /\ Matches(emojiRes[t1], "negative") = 1
        /\ Matches(emojiRes[t1], "neutral") = 1
        /\ CountsDoubled(emojiRes[t1], emojiRes[t2])
        /\ emojiRes[t2].emoji_sentiment_score.den = 8

-----------------------------------------------------------------------------
(***************************************************************************)
(* Properties of visual fusion (checked under SpecImage)                   *)
(***************************************************************************)

\* The summed share of the dominant colours of the result named in `names`.
RECURSIVE ShareOfNames(_, _, _)
ShareOfNames(colors, names, n) ==
    IF n = 0 THEN 0
    ELSE ShareOfNames(colors, names, n - 1)
            + (IF colors[n].color_name \in names
               THEN colors[n].percentage ELSE 0)

Analysed == imageRes.status = "returned" /\ imageRes.error = ""

\* C10: image_sentiment is positive iff warm% > cool% and brightness > 120,
\* negative iff cool% > warm% and brightness < 80, neutral in every other
\* case, where warm% sums the shares of the dominant colours named
\* red/orange/yellow/pink and cool% those named blue/green/purple.
C10_ImageSentimentRule ==
    Analysed =>
        LET colors == imageRes.dominant_colors
            warm == ShareOfNames(colors, {"red", "orange", "yellow", "pink"},
                                 Len(colors))
            cool == ShareOfNames(colors, {"blue", "green", "purple"},
                                 Len(colors))
            v == imageRes.brightness.brightness_value
        IN  /\ imageRes.warm_color_percentage = warm
            /\ imageRes.cool_color_percentage = cool
            /\ imageRes.image_sentiment = "positive"
                  <=> (warm > cool /\ v > 120)
            /\ imageRes.image_sentiment = "negative"
                  <=> (cool > warm /\ v < 80)
            /\ imageRes.image_sentiment = "neutral"
                  <=> ~(warm > cool /\ v > 120) /\ ~(cool > warm /\ v < 80)

\* C10 witness: warm 70%, cool 10%, brightness 150 has been analysed and is
\* positive.
C10_Witness ==
    /\ Analysed
    /\ imageRes.warm_color_percentage = 7000
    /\ imageRes.cool_color_percentage = 1000
    /\ imageRes.brightness.brightness_value = 150
    /\ imageRes.image_sentiment = "positive"

-----------------------------------------------------------------------------
(***************************************************************************)
(* Properties of audio fusion (checked under SpecAudio)                    *)
(***************************************************************************)

\* The recogniser returned a transcript for the file.
Transcribed(a) ==
    a.exists /\ a.sr_available /\ a.speech = "recognised"

\* The sentiment fields of a result of analyze_audio, with their values.
SentimentFields(r) ==
    [k \in DOMAIN r \cap {"text_sentiment", "audio_sentiment"} |-> r[k]]

\* C11: analyze_audio is transcript-first.  Whenever the transcription
\* succeeded the result carries text_sentiment, the combined sentiment of the
\* transcript (score 0.6 * compound + 0.4 * polarity, label by the 0.05
\* thresholds), and no audio_sentiment; the tone fallback audio_sentiment is
\* present only when the transcription did not succeed; and two files with
\* the same successful transcription get the same sentiment fields whatever
\* their acoustic features (tone, volume, unreadable samples) are.
C11_TranscriptFirst ==
    /\ \A a \in DOMAIN audioRes :
          LET r == audioRes[a]
          IN  r.status = "returned" =>
                /\ Transcribed(a) =>
                     /\ DOMAIN SentimentFields(r) = {"text_sentiment"}
                     /\ r.text_sentiment.combined_score =
                            6 * a.transcript.compound
                            + 4 * a.transcript.polarity
                     /\ r.text_sentiment.label =
                            (IF r.text_sentiment.combined_score >= 50
                             THEN "Positive"
                             ELSE IF r.text_sentiment.combined_score <= -50
                             THEN "Negative"
                             ELSE "Neutral")
                /\ "audio_sentiment" \in DOMAIN r => ~Transcribed(a)
    /\ \A a \in DOMAIN audioRes, b \in DOMAIN audioRes :
          (Transcribed(a) /\ SameSpeech(a, b)) =>
              SentimentFields(audioRes[a]) = SentimentFields(audioRes[b])

\* Two transcribed recordings of the same positive speech, one excited and
\* loud, the other with samples the wave module cannot read, both analysed.
C11_Witness ==
    /\ audio = Recording(TRUE, "recognised", Text("great", 85, 50), TRUE,
                         11, 31)
    /\ audio2 = Recording(TRUE, "recognised", Text("great", 85, 50), FALSE,
                          0, 0)
    /\ DOMAIN audioRes = {audio, audio2}
    /\ audioRes[audio].text_sentiment.label = "Positive"
    /\ audioRes[audio2].text_sentiment.label = "Positive"
    /\ audioRes[audio].audio_features.estimated_tone = ExcitedEnergetic
    /\ "error" \in DOMAIN audioRes[audio2].audio_features

\* C12: when the transcription did not succeed and the audio features were
\* extracted, audio_sentiment is positive iff the tone contains 'excited' or
\* 'energetic', otherwise negative iff it contains 'angry', otherwise
\* neutral; the tone is one of four, and excited/energetic gives positive,
\* assertive/angry gives negative, calm/subdued and neutral/conversational
\* give neutral.
C12_ToneFallback ==
    \A a \in DOMAIN audioRes :
        LET r == audioRes[a]
        IN  (r.status = "returned" /\ ~Transcribed(a)
             /\ "error" \notin DOMAIN r.audio_features) =>
              LET tone == r.audio_features.estimated_tone
                  lively ==
                      \/ IsSubstring(<<"e", "x", "c", "i", "t", "e", "d">>,
                                     tone)
                      \/ IsSubstring(<<"e", "n", "e", "r", "g", "e", "t",
                                       "i", "c">>, tone)
                  angry == IsSubstring(<<"a", "n", "g", "r", "y">>, tone)
              IN  /\ "audio_sentiment" \in DOMAIN r
                  /\ (r.audio_sentiment = "positive") <=> lively
                  /\ (r.audio_sentiment = "negative") <=> (~lively /\ angry)
                  /\ (r.audio_sentiment = "neutral") <=> (~lively /\ ~angry)
                  /\ tone \in {ExcitedEnergetic, AssertiveAngry, CalmSubdued,
                               NeutralConversational}
                  /\ tone = ExcitedEnergetic => r.audio_sentiment = "positive"
                  /\ tone = AssertiveAngry => r.audio_sentiment = "negative"
                  /\ tone \in {CalmSubdued, NeutralConversational} =>
                         r.audio_sentiment = "neutral"

\* An unintelligible recording with a calm tone has been analysed and came
\* out neutral, next to one with an angry tone that came out negative.
C12_Witness ==
    /\ audio.exists /\ audio.speech = "unintelligible" /\ audio.sr_available
    /\ audio2.exists
    /\ DOMAIN audioRes = {audio, audio2}
    /\ audioRes[audio].audio_features =
           [zero_crossing_rate |-> 4, volume_level |-> "quiet",
            estimated_tone |-> CalmSubdued]
    /\ audioRes[audio].audio_sentiment = "neutral"
    /\ "error" \notin DOMAIN audioRes[audio2].audio_features
    /\ audioRes[audio2].audio_features.estimated_tone = AssertiveAngry
    /\ audioRes[audio2].audio_sentiment = "negative"

-----------------------------------------------------------------------------
(***************************************************************************)
(* Properties of video fusion (checked under SpecVideo)                    *)
(***************************************************************************)

\* The position of the k-th occurrence of label l in a list of labels.
OccurrenceIndex(items, l, k) ==
    CHOOSE i \in 1..Len(items) :
        /\ items[i] = l
        /\ Cardinality({j \in 1..i : items[j] = l}) = k

\* The largest count of a label in a non-empty list of labels.
MaxCount(items) ==
    CHOOSE m \in 1..Len(items) :
        /\ \E l \in DOMAIN CounterOf(items) : CounterOf(items)[l] = m
        /\ \A l \in DOMAIN CounterOf(items) : CounterOf(items)[l] <= m

\* The results of analyze_video that carry per-frame sentiments.
WithFrameSentiments ==
    {v \in DOMAIN videoRes :
        /\ videoRes[v].status = "returned"
        /\ "visual_sentiment" \in DOMAIN videoRes[v]
        /\ "frame_sentiments" \in DOMAIN videoRes[v].visual_sentiment}

\* C13 as stated: dominant_sentiment has the maximum count among the
\* per-frame sentiments, and among the labels sharing that count it is the
\* one whose count reaches the maximum first when the frames are scanned in
\* extraction order.
C13_FirstToReachMaximum ==
    \A v \in WithFrameSentiments :
        LET fs == videoRes[v].visual_sentiment.frame_sentiments
            d == videoRes[v].visual_sentiment.dominant_sentiment
            m == MaxCount(fs)
        IN  /\ d \in DOMAIN CounterOf(fs)
            /\ CounterOf(fs)[d] = m
            /\ \A l \in DOMAIN CounterOf(fs) :
                   CounterOf(fs)[l] = m =>
                       OccurrenceIndex(fs, d, m) <= OccurrenceIndex(fs, l, m)

\* C13 amended: dominant_sentiment has the maximum count among the per-frame
\* sentiments, and among the labels sharing that count it is the one that
\* occurs first in extraction order.
C13_FirstSeenAmongMaxima ==
    \A v \in WithFrameSentiments :
        LET fs == videoRes[v].visual_sentiment.frame_sentiments
            d == videoRes[v].visual_sentiment.dominant_sentiment
            m == MaxCount(fs)
        IN  /\ d \in DOMAIN CounterOf(fs)
            /\ CounterOf(fs)[d] = m
            /\ \A l \in DOMAIN CounterOf(fs) :
                   CounterOf(fs)[l] = m =>
                       OccurrenceIndex(fs, d, 1) <= OccurrenceIndex(fs, l, 1)

\* The frames positive, negative, negative, positive have been analysed: the
\* two labels tie at two and the dominant one is positive.
C13_Witness ==
    /\ video.frames = <<WarmFrame, CoolFrame, CoolFrame, WarmFrame>>
    /\ video.output_dir
    /\ video \in WithFrameSentiments
    /\ videoRes[video].visual_sentiment.frame_sentiments =
           <<"positive", "negative", "negative", "positive">>
    /\ videoRes[video].visual_sentiment.dominant_sentiment = "positive"

\* C14: when zero key frames are extracted from a video file (the frame
\* count is reported as 0, the file does not open, or no read delivers a
\* frame), analyze_video returns and dominant_sentiment is 'unknown'.
C14_NoFramesUnknown ==
    \A v \in DOMAIN videoRes :
        (v.exists /\ (v.total_frames = 0 \/ v.frames = <<>>)) =>
            /\ videoRes[v].status = "returned"
            /\ videoRes[v].visual_sentiment.dominant_sentiment = "unknown"

\* A file that opens and shows strong motion but delivers no key frame has
\* been analysed with an output_dir, and so has one whose frame count is 0.
C14_Witness ==
    /\ video = VideoFile(TRUE, 150, <<>>, <<4000>>, TRUE)
    /\ video \in DOMAIN videoRes
    /\ videoRes[video].status = "returned"
    /\ videoRes[video].key_frames.num_extracted = 0
    /\ videoRes[video].visual_sentiment = [dominant_sentiment |-> "unknown"]
    /\ videoRes[video].energy_level = "high"

\* C15: the activity level is high when the mean frame difference exceeds
\* 20, moderate when it exceeds 8 and is at most 20, low otherwise, and
\* energy_level is the level of the same name.
C15_ActivityThresholds ==
    \A v \in DOMAIN videoRes :
        (v.exists /\ v.opens /\ v.motion # <<>>) =>
            LET r == videoRes[v]
                mean == r.motion_analysis.average_motion
                activity == r.motion_analysis.activity_level
            IN  /\ r.status = "returned"
                /\ mean.num = SumSeq(v.motion) /\ mean.den = Len(v.motion)
                /\ (activity = "high_activity") <=>
                       mean.num > 2000 * mean.den
                /\ (activity = "moderate_activity") <=>
                       (mean.num > 800 * mean.den
                        /\ mean.num <= 2000 * mean.den)
                /\ (activity = "low_activity") <=> mean.num <= 800 * mean.den
                /\ activity = "high_activity" => r.energy_level = "high"
                /\ activity = "moderate_activity" =>
                       r.energy_level = "moderate"
                /\ activity = "low_activity" => r.energy_level = "low"

\* A file whose mean frame difference is exactly 20 has been analysed and is
\* of moderate activity, next to one above 20 that is of high activity.
C15_Witness ==
    /\ video.motion = <<2000>> /\ video2.motion = <<4000>>
    /\ DOMAIN videoRes = {video, video2}
    /\ videoRes[video].motion_analysis.activity_level = "moderate_activity"
    /\ videoRes[video].energy_level = "moderate"
    /\ videoRes[video2].motion_analysis.activity_level = "high_activity"
    /\ videoRes[video2].energy_level = "high"

\* The two files yield the same per-frame sentiments: same key frames,
\* written or not written alike.
SameFrames(a, b) ==
    /\ a.exists /\ b.exists
    /\ a.total_frames = b.total_frames
    /\ a.frames = b.frames
    /\ a.output_dir = b.output_dir

\* The two files show the same motion.
SameMotion(a, b) ==
    /\ a.exists /\ b.exists
    /\ a.opens = b.opens
    /\ a.motion = b.motion

\* C16: the energy axis is never merged into the sentiment.  Two videos with
\* the same frames and different motion get the same dominant_sentiment, and
\* two videos with the same motion and different frames get the same
\* energy_level.
C16_EnergySeparate ==
    \A a \in DOMAIN videoRes, b \in DOMAIN videoRes :
        (videoRes[a].status = "returned" /\ videoRes[b].status = "returned")
        =>
            /\ SameFrames(a, b) =>
                   videoRes[a].visual_sentiment.dominant_sentiment =
                       videoRes[b].visual_sentiment.dominant_sentiment
            /\ SameMotion(a, b) =>
                   videoRes[a].energy_level = videoRes[b].energy_level

\* Two files with the same negative frames, one still and one in strong
\* motion, have been analysed: negative both, low and high energy.
C16_Witness ==
    /\ video.frames = <<CoolFrame, CoolFrame, GreyFrame>>
    /\ video.output_dir
    /\ video.motion = <<500>>
    /\ video2 = [video EXCEPT !.motion = <<4000>>]
    /\ DOMAIN videoRes = {video, video2}
    /\ videoRes[video].visual_sentiment.dominant_sentiment = "negative"
    /\ videoRes[video2].visual_sentiment.dominant_sentiment = "negative"
    /\ videoRes[video].energy_level = "low"
    /\ videoRes[video2].energy_level = "high"

-----------------------------------------------------------------------------
(***************************************************************************)
(* Properties of the failure paths (checked under SpecMedia)               *)
(***************************************************************************)

\* C17: the entry points never raise on a decode failure.  For a file that
\* is present but that the image loader, the audio readers or the video
\* reader cannot decode, analyze_image, analyze_audio and analyze_video
\* return a result, and the result carries an error or an unknown or neutral
\* outcome.
C17_NoRaiseOnDecodeFailure ==
    /\ (imageRes # NoImageResult /\ image.exists
        /\ (~image.pil_opens \/ ~image.cv2_reads)) =>
           /\ imageRes.status = "returned"
           /\ \/ imageRes.error # ""
              \/ imageRes.image_sentiment = "neutral"
    /\ \A a \in DOMAIN audioRes :
           (a.exists /\ a.speech = "unreadable" /\ ~a.wav_readable) =>
               /\ audioRes[a].status = "returned"
               /\ "error" \in DOMAIN audioRes[a].audio_features
               /\ audioRes[a].audio_sentiment \in {"unknown", "neutral"}
    /\ \A v \in DOMAIN videoRes :
           (v.exists /\ (~v.opens \/ v.total_frames = 0 \/ v.frames = <<>>))
           =>
               /\ videoRes[v].status = "returned"
               /\ videoRes[v].visual_sentiment.dominant_sentiment
                      \in {"unknown", "neutral"}

\* C18 as stated: for a media file that does not exist, each of the three
\* entry points returns a result that has an error field and no sentiment
\* label.
C18_MissingFileErrorField ==
    /\ (imageRes # NoImageResult /\ ~image.exists) =>
           /\ imageRes.status = "returned"
           /\ "error" \in DOMAIN imageRes /\ imageRes.error # ""
           /\ "image_sentiment" \notin DOMAIN imageRes
    /\ \A a \in DOMAIN audioRes :
           ~a.exists =>
               /\ audioRes[a].status = "returned"
               /\ "error" \in DOMAIN audioRes[a]
               /\ "text_sentiment" \notin DOMAIN audioRes[a]
               /\ Get(audioRes[a], "audio_sentiment", "unknown")
                      \notin {"positive", "negative"}
    /\ \A v \in DOMAIN videoRes :
           ~v.exists =>
               /\ videoRes[v].status = "returned"
               /\ "error" \in DOMAIN videoRes[v]
               /\ "visual_sentiment" \notin DOMAIN videoRes[v]

\* C18 amended: for a media file that does not exist, analyze_image and
\* analyze_video return a result that has an error field and no sentiment
\* label; analyze_audio returns a result whose audio_features and
\* transcription entries each have an error field, with audio_sentiment
\* 'unknown' and no text_sentiment.
C18_MissingFileDegrades ==
    /\ (imageRes # NoImageResult /\ ~image.exists) =>
           /\ imageRes.status = "returned"
           /\ "error" \in DOMAIN imageRes /\ imageRes.error # ""
           /\ "image_sentiment" \notin DOMAIN imageRes
    /\ \A a \in DOMAIN audioRes :
           ~a.exists =>
               /\ audioRes[a].status = "returned"
               /\ "error" \notin DOMAIN audioRes[a]
               /\ "error" \in DOMAIN audioRes[a].audio_features
               /\ "error" \in DOMAIN audioRes[a].transcription
               /\ "text_sentiment" \notin DOMAIN audioRes[a]
               /\ audioRes[a].audio_sentiment = "unknown"
    /\ \A v \in DOMAIN videoRes :
           ~v.exists =>
               /\ videoRes[v].status = "returned"
               /\ "error" \in DOMAIN videoRes[v]
               /\ "visual_sentiment" \notin DOMAIN videoRes[v]
               /\ "energy_level" \notin DOMAIN videoRes[v]

\* The three analyzers have each been handed a path with no file behind it
\* and have returned.
C18_Witness ==
    /\ ~image.exists /\ ~audio.exists /\ ~video.exists
    /\ audio.sr_available
    /\ imageRes = [status |-> "returned", error |-> "Image not found"]
    /\ audio \in DOMAIN audioRes
    /\ audioRes[audio].audio_features = [error |-> "File not found"]
    /\ audioRes[audio].transcription = [error |-> "Audio file not found"]
    /\ audioRes[audio].audio_sentiment = "unknown"
    /\ video \in DOMAIN videoRes
    /\ videoRes[video] = [status |-> "returned", error |-> "Video not found"]

-----------------------------------------------------------------------------
(***************************************************************************)
(* Properties of the batch loops (checked under SpecBatches)               *)
(***************************************************************************)

\* C19: a single unit's failure does not abort a batch.  Once
\* TextAnalyzer.analyze_batch or EmojiAnalyzer.analyze_batch has run on a
\* list, it has returned, and every element of the list that can be scored
\* has its result in what was returned.
C19_UnitFailureDoesNotAbort ==
    /\ df # NoDf =>
           /\ df.built
           /\ \A i \in 1..Len(texts) :
                  IsStr(texts[i]) =>
                      \E j \in 1..Len(df.rows) : df.rows[j].text = texts[i].id
    /\ emojiBatchRes # NoBatchResult =>
           /\ emojiBatchRes.status = "returned"
           /\ \A i \in 1..Len(posts) :
                  IsStr(posts[i]) =>
                      \E j \in 1..Len(emojiBatchRes.individual_results) :
                          emojiBatchRes.individual_results[j].text =
                              posts[i].chars

-----------------------------------------------------------------------------
(***************************************************************************)
(* Properties of the emoji lookup (checked under SpecLookup)               *)
(***************************************************************************)

\* C20: the positive and the negative emoji table have no entry in common,
\* and for every argument _get_emoji_sentiment returns 'positive' iff the
\* argument is in the positive table, 'negative' iff it is in the negative
\* table, and 'neutral' iff it is in neither.
C20_DisjointTablesLookup ==
    /\ positive_emojis \cap negative_emojis = {}
    /\ lookupRes # NoLookup =>
           /\ (lookupRes = "positive") <=> (lookupArg \in positive_emojis)
           /\ (lookupRes = "negative") <=> (lookupArg \in negative_emojis)
           /\ (lookupRes = "neutral") <=>
                  (lookupArg \notin positive_emojis
                   /\ lookupArg \notin negative_emojis)

\* The pouting face, an entry of the negative table, has been looked up.
C20_Witness ==
    /\ lookupArg = <<"U+1F621">>
    /\ lookupArg \in negative_emojis
    /\ lookupRes = "negative"

-----------------------------------------------------------------------------
(***************************************************************************)
(* Properties of emoticon and emoji extraction (checked under SpecEmoji)   *)
(***************************************************************************)

\* How many matches of a table entry a list of emoticon matches holds.
MatchesOf(found, emoticon) ==
    Cardinality({i \in 1..Len(found) : found[i].emoticon = emoticon})

TableEmoticons ==
    {EmoticonTable[i].emoticon : i \in 1..Len(EmoticonTable)}

\* C21 as stated: extract_emoticons returns at most one match per table
\* entry, and a text that repeats one emoticon gets the match list of the
\* emoticon written once.
C21_RepetitionSameMatches ==
    /\ \A t \in DOMAIN emojiRes :
           \A e \in TableEmoticons :
               MatchesOf(emojiRes[t].emoticons_found, e) <= 1
    /\ (post \in TableEmoticons /\ post \in DOMAIN emojiRes) =>
           /\ (post \o post) \in DOMAIN emojiRes =>
                  emojiRes[post \o post].emoticons_found
                      = emojiRes[post].emoticons_found
           /\ (post \o <<" ">> \o post) \in DOMAIN emojiRes =>
                  emojiRes[post \o <<" ">> \o post].emoticons_found
                      = emojiRes[post].emoticons_found

\* C21 amended: extract_emoticons returns at most one match per table entry;
\* a text written twice with a space between the copies gets the match list
\* of the text written once; written twice without a space it gets every
\* match of the single text, once each, and any further match is a table
\* entry that is not in the single text (':D:D' holds 'D:').
C21_PresenceNotFrequency ==
    /\ \A t \in DOMAIN emojiRes :
           \A e \in TableEmoticons :
               MatchesOf(emojiRes[t].emoticons_found, e) <= 1
    /\ post \in DOMAIN emojiRes =>
           /\ (post \o <<" ">> \o post) \in DOMAIN emojiRes =>
                  emojiRes[post \o <<" ">> \o post].emoticons_found
                      = emojiRes[post].emoticons_found
           /\ (post \o post) \in DOMAIN emojiRes =>
                  \A e \in TableEmoticons :
                      /\ MatchesOf(emojiRes[post].emoticons_found, e)
                             <= MatchesOf(emojiRes[post \o post]
                                              .emoticons_found, e)
                      /\ MatchesOf(emojiRes[post \o post].emoticons_found, e)
                             > MatchesOf(emojiRes[post].emoticons_found, e)
                         => ~IsSubstring(e, post)

\* ':D', ':D:D' and ':D :D' have been analysed: one match, two matches (':D'
\* and 'D:'), one match.
C21_Witness ==
    /\ post = <<":", "D">>
    /\ DOMAIN emojiRes = {post, post \o post, post \o <<" ">> \o post}
    /\ emojiRes[post].emoticons_found =
           <<[emoticon |-> <<":", "D">>, sentiment |-> "positive"]>>
    /\ emojiRes[post \o <<" ">> \o post].emoticons_found =
           <<[emoticon |-> <<":", "D">>, sentiment |-> "positive"]>>
    /\ emojiRes[post \o post].emoticons_found =
           <<[emoticon |-> <<":", "D">>, sentiment |-> "positive"],
             [emoticon |-> <<"D", ":">>, sentiment |-> "negative"]>>

\* C22 as stated: a text whose only emoticon is ':-)' is reported as holding
\* both ':-)' and ':)', two positive matches.
C22_SmileyWithNoseCountedTwice ==
    <<":", "-", ")">> \in DOMAIN emojiRes =>
        LET found == emojiRes[<<":", "-", ")">>].emoticons_found
        IN  /\ MatchesOf(found, <<":", "-", ")">>) = 1
            /\ MatchesOf(found, <<":", ")">>) = 1
            /\ Len(found) = 2
            /\ \A i \in 1..Len(found) : found[i].sentiment = "positive"

\* C22 amended: an emoticon is counted with another only when the other is
\* a substring of it.  The text ':-)' is reported as holding ':-)' alone
\* (':)' is not a substring of ':-)'); the text '>:(' is reported as holding
\* both ':(' and '>:(', two negative matches.
C22_OverlapNeedsSubstring ==
    /\ \A t \in DOMAIN emojiRes :
           \A e \in TableEmoticons :
               MatchesOf(emojiRes[t].emoticons_found, e) = 1
                   <=> \E i \in 1..(Len(t) - Len(e) + 1) :
                           \A k \in 1..Len(e) : t[i + k - 1] = e[k]
    /\ <<":", "-", ")">> \in DOMAIN emojiRes =>
           emojiRes[<<":", "-", ")">>].emoticons_found =
               <<[emoticon |-> <<":", "-", ")">>, sentiment |-> "positive"]>>
    /\ <<">", ":", "(">> \in DOMAIN emojiRes =>
           emojiRes[<<">", ":", "(">>].emoticons_found =
               <<[emoticon |-> <<":", "(">>, sentiment |-> "negative"],
                 [emoticon |-> <<">", ":", "(">>, sentiment |-> "negative"]>>

\* The text ':-)' has been analysed: it has its single match, a total of
\* one emoticon, and is positive.
C22_Witness ==
    /\ post = <<":", "-", ")">>
    /\ post \in DOMAIN emojiRes
    /\ emojiRes[post].total_emoticon_count = 1
    /\ emojiRes[post].emoticons_found[1].emoticon = <<":", "-", ")">>
    /\ emojiRes[post].overall_emoji_sentiment = "positive"

\* C24: every entry of the positive (negative) emoji table is classified
\* positive (negative) when it occurs in a text: extract_emojis on the text
\* that consists of the entry yields a match with that sentiment, also for
\* the entries of two code points (a base character and U+FE0F).
C24_TableEntriesClassified ==
    \A t \in DOMAIN emojiRes :
        /\ t \in PositiveEmojiTable =>
               \E i \in 1..Len(emojiRes[t].emojis_found) :
                   emojiRes[t].emojis_found[i].sentiment = "positive"
        /\ t \in NegativeEmojiTable =>
               \E i \in 1..Len(emojiRes[t].emojis_found) :
                   emojiRes[t].emojis_found[i].sentiment = "negative"

-----------------------------------------------------------------------------
(***************************************************************************)
(* Properties of a session of calls (checked under SpecSession)            *)
(***************************************************************************)

\* Every call logged for an input returned what the first call on that
\* input returned.
SameEveryCall(log) ==
    \A x \in DOMAIN log :
        \A i \in 1..Len(log[x]) : log[x][i] = log[x][1]

\* The matches of sentiment s in the posts a batch result was computed from.
BatchMatches(r, s) ==
    SumSeq([i \in 1..Len(r.individual_results) |->
               Matches(r.individual_results[i], s)])

\* C23: the analyzers are stateless across calls.  After any sequence of
\* analyze_emoji_sentiment, EmojiAnalyzer.analyze_batch, combined_sentiment
\* and get_sentiment_summary calls the three emoji tables hold what __init__
\* built, every call on an input returned what the first call on that input
\* returned, a batch result holds for each post what analyze_emoji_sentiment
\* returned for that post on its own, and the batch distribution counts the
\* matches of the posts of that batch and nothing carried over from earlier
\* calls.
C23_Stateless ==
    /\ emoticon_sentiments = EmoticonTable
    /\ positive_emojis = PositiveEmojiTable
    /\ negative_emojis = NegativeEmojiTable
    /\ SameEveryCall(emojiRes)
    /\ SameEveryCall(emojiBatchRes)
    /\ SameEveryCall(combRes)
    /\ SameEveryCall(summary)
    /\ \A ps \in DOMAIN emojiBatchRes :
           \A k \in 1..Len(emojiBatchRes[ps]) :
               LET r == emojiBatchRes[ps][k]
               IN  /\ r.status = "returned"
                   /\ Len(r.individual_results) = Len(ps)
                   /\ \A i \in 1..Len(ps) :
                          ps[i].chars \in DOMAIN emojiRes =>
                              r.individual_results[i]
                                  = emojiRes[ps[i].chars][1]
                   /\ \A s \in {"positive", "negative", "neutral"} :
                          Get(r.overall_sentiment_distribution, s, 0)
                              = BatchMatches(r, s)
                   /\ DOMAIN r.overall_sentiment_distribution
                          \subseteq {"positive", "negative", "neutral"}

\* A list of two posts was analysed twice and another list with matches
\* before or between the two calls.
C23_Witness ==
    \E ps \in DOMAIN emojiBatchRes :
        /\ Len(ps) = 2
        /\ Len(emojiBatchRes[ps]) = 2
        /\ \E other \in DOMAIN emojiBatchRes :
               /\ other # ps
               /\ emojiBatchRes[other][1].overall_sentiment_distribution
                      # <<>>

-----------------------------------------------------------------------------
(***************************************************************************)
(* Properties of the frame vote (checked under SpecVideo)                  *)
(***************************************************************************)

\* The results of analyze_video for which extract_key_frames extracted at
\* least one frame.
WithExtractedFrames ==
    {v \in DOMAIN videoRes :
        /\ videoRes[v].status = "returned"
        /\ "key_frames" \in DOMAIN videoRes[v]
        /\ Get(videoRes[v].key_frames, "num_extracted", 0) > 0}

\* C25: dominant_sentiment is 'unknown' only if zero key frames were
\* extracted.  Whenever extract_key_frames extracted at least one frame,
\* with or without an output_dir, dominant_sentiment is a label with the
\* largest count among the sentiments of the extracted frames.
C25_UnknownOnlyWithoutFrames ==
    \A v \in WithExtractedFrames :
        LET fs == FrameSentiments(videoRes[v].key_frames.extracted_frames)
            d == videoRes[v].visual_sentiment.dominant_sentiment
        IN  /\ d # "unknown"
            /\ d \in DOMAIN CounterOf(fs)
            /\ CounterOf(fs)[d] = MaxCount(fs)

-----------------------------------------------------------------------------
(***************************************************************************)
(* Properties of the colour names (checked under SpecPalette)              *)
(***************************************************************************)

\* No RGB triple is given a name that has not been returned yet.
EveryNameReturned ==
    \A rgb \in RgbSamples : rgb_to_color_name(rgb) \in imageRes

\* C26: every colour name analyze_image counts as warm (red, orange, yellow,
\* pink) or cool (blue, green, purple) is returned by _rgb_to_color_name for
\* some RGB triple in 0..255: once every name the function returns has been
\* returned, the warm and the cool names are all among them.
C26_WarmAndCoolNamesReachable ==
    EveryNameReturned => (WarmNames \cup CoolNames) \subseteq imageRes

-----------------------------------------------------------------------------
(***************************************************************************)
(* Properties of the audio result (checked under SpecAudio)                *)
(***************************************************************************)

\* C27: every result of analyze_audio carries exactly one of the two
\* sentiment fields: text_sentiment, present iff the transcription
\* succeeded, or audio_sentiment, present iff it did not; audio_sentiment is
\* one of positive, negative, neutral and unknown, and it is unknown exactly
\* when the feature extraction returned an error.
C27_ExactlyOneSentimentField ==
    \A a \in DOMAIN audioRes :
        LET r == audioRes[a]
            succeeded == Get(r.transcription, "success", FALSE)
        IN  r.status = "returned" =>
              /\ Cardinality(DOMAIN r
                                 \cap {"text_sentiment", "audio_sentiment"})
                     = 1
              /\ succeeded <=> Transcribed(a)
              /\ "text_sentiment" \in DOMAIN r <=> succeeded
              /\ "audio_sentiment" \in DOMAIN r <=> ~succeeded
              /\ "audio_sentiment" \in DOMAIN r =>
                     /\ r.audio_sentiment \in
                            {"positive", "negative", "neutral", "unknown"}
                     /\ (r.audio_sentiment = "unknown") <=>
                            ("error" \in DOMAIN r.audio_features)

\* Two recordings of the same speech have been analysed with the recogniser
\* missing: one whose samples cannot be read came out unknown, one with an
\* excited tone came out positive, and neither carries text_sentiment.
C27_Witness ==
    /\ audio = Recording(FALSE, "recognised", Text("great", 85, 50), FALSE,
                         0, 0)
    /\ audio2 = Recording(FALSE, "recognised", Text("great", 85, 50), TRUE,
                          11, 21)
    /\ DOMAIN audioRes = {audio, audio2}
    /\ audioRes[audio].audio_sentiment = "unknown"
    /\ audioRes[audio2].audio_sentiment = "positive"
    /\ "text_sentiment" \notin DOMAIN audioRes[audio]
    /\ "text_sentiment" \notin DOMAIN audioRes[audio2]

\* The counts of a distribution added up.
DistributionTotal(distribution) ==
    SumSeq([i \in 1..3 |->
               Get(distribution,
                   <<"positive", "negative", "neutral">>[i], 0)])

\* C28: a key frame whose image analysis returns an error result, without
\* image_sentiment, is counted as a 'neutral' vote.  Whenever at least one
\* frame path exists frame_sentiments has one entry per frame path, 'neutral'
\* where the image analysis failed, the distribution counts sum to the number
\* of frame paths, and dominant_sentiment is positive, negative or neutral.
C28_ErrorFrameVotesNeutral ==
    \A v \in DOMAIN videoRes :
        LET r == videoRes[v]
            paths == Get(Get(r, "key_frames", <<>>), "frame_paths", <<>>)
        IN  (r.status = "returned" /\ paths # <<>>) =>
              LET visual == r.visual_sentiment
              IN  /\ "frame_sentiments" \in DOMAIN visual
                  /\ Len(visual.frame_sentiments) = Len(paths)
                  /\ \A i \in 1..Len(paths) :
                         "image_sentiment"
                                 \notin DOMAIN analyze_image(paths[i]) =>
                             visual.frame_sentiments[i] = "neutral"
                  /\ DOMAIN visual.distribution
                         \subseteq {"positive", "negative", "neutral"}
                  /\ DistributionTotal(visual.distribution) = Len(paths)
                  /\ visual.dominant_sentiment
                         \in {"positive", "negative", "neutral"}

\* A video whose three key frames were a red one, one that was not written
\* and another that was not written has been analysed with an output_dir:
\* the unwritten frames vote neutral and neutral wins two to one.
C28_Witness ==
    /\ video.frames = <<WarmFrame, UnwrittenFrame, UnwrittenFrame>>
    /\ video.output_dir
    /\ video \in DOMAIN videoRes
    /\ videoRes[video].status = "returned"
    /\ videoRes[video].visual_sentiment.frame_sentiments
           = <<"positive", "neutral", "neutral">>
    /\ videoRes[video].visual_sentiment.dominant_sentiment = "neutral"

\* C30: energy_level is 'moderate' whenever the motion activity level is
\* neither high_activity nor low_activity, which includes a failed motion
\* analysis (an error result) and one without samples (activity 'unknown');
\* energy_level is always one of high, moderate and low, never 'unknown'.
C30_EnergyDefaultsToModerate ==
    \A v \in DOMAIN videoRes :
        LET r == videoRes[v]
        IN  (r.status = "returned" /\ v.exists) =>
              LET motion == r.motion_analysis
                  activity == Get(motion, "activity_level", "unknown")
              IN  /\ "energy_level" \in DOMAIN r
                  /\ r.energy_level \in {"high", "moderate", "low"}
                  /\ activity \notin {"high_activity", "low_activity"} =>
                         r.energy_level = "moderate"
                  /\ "error" \in DOMAIN motion => r.energy_level = "moderate"
                  /\ (~v.opens) => "error" \in DOMAIN motion
                  /\ (v.opens /\ v.motion = <<>>) =>
                         /\ motion.activity_level = "unknown"
                         /\ r.energy_level = "moderate"

\* A file that yields no motion sample has been analysed: its activity is
\* 'unknown' and its energy moderate; the same file with strong motion is of
\* high energy.
C30_Witness ==
    /\ video = VideoFile(TRUE, 150, <<WarmFrame>>, <<>>, TRUE)
    /\ video2 = VideoFile(TRUE, 150, <<WarmFrame>>, <<4000>>, TRUE)
    /\ DOMAIN videoRes = {video, video2}
    /\ videoRes[video].motion_analysis.activity_level = "unknown"
    /\ videoRes[video].energy_level = "moderate"
    /\ videoRes[video2].energy_level = "high"

-----------------------------------------------------------------------------
(***************************************************************************)
(* Properties of the summary totals (checked under SpecBatch)              *)
(***************************************************************************)

\* a + b + carry for binary numbers of the same length.
RECURSIVE PlusCarry(_, _, _)
PlusCarry(a, b, carry) ==
    IF a = <<>> THEN BitsOf(carry)
    ELSE PlusCarry(SubSeq(a, 1, Len(a) - 1), SubSeq(b, 1, Len(b) - 1),
                   (a[Len(a)] + b[Len(b)] + carry) \div 2)
         \o <<(a[Len(a)] + b[Len(b)] + carry) % 2>>

\* float + float: the double nearest to the sum.
FloatAdd(x, y) ==
    IF x.m = <<>> THEN y
    ELSE IF y.m = <<>> THEN x
    ELSE LET e == IF x.e < y.e THEN x.e ELSE y.e
             a == x.m \o Zeros(x.e - e)
             b == y.m \o Zeros(y.e - e)
             w == IF Len(a) < Len(b) THEN Len(b) ELSE Len(a)
         IN  RoundToDouble(PlusCarry(Zeros(w - Len(a)) \o a,
                                     Zeros(w - Len(b)) \o b, 0),
                           e, FALSE)

\* float(k) for a natural number k.
FloatOf(k) == RoundToDouble(BitsOf(k), 0, FALSE)

\* The binary digits of the number before the one written as bits.
RECURSIVE Predecessor(_)
Predecessor(bits) ==
    IF bits[Len(bits)] = 1
    THEN SubSeq(bits, 1, Len(bits) - 1) \o <<0>>
    ELSE Predecessor(SubSeq(bits, 1, Len(bits) - 1)) \o <<1>>

RECURSIVE StepsUp(_, _)
StepsUp(bits, j) == IF j = 0 THEN bits ELSE StepsUp(Successor(bits), j - 1)

RECURSIVE StepsDown(_, _)
StepsDown(bits, j) ==
    IF j = 0 THEN bits ELSE StepsDown(Predecessor(bits), j - 1)

\* The double x is at most four units in the last place away from 100.0.
NearHundred(x) ==
    /\ x.e = FloatOf(100).e
    /\ \E j \in 0..4 :
           \/ x.m = StepsUp(FloatOf(100).m, j)
           \/ x.m = StepsDown(FloatOf(100).m, j)

\* positive_percentage + negative_percentage + neutral_percentage as Python
\* evaluates it.
PercentageSum(s) ==
    FloatAdd(FloatAdd(s.positive_percentage.float,
                      s.negative_percentage.float),
             s.neutral_percentage.float)

Summarised == summary # NoSummary /\ summary.status = "returned"

\* C29 as stated: for every batch produced by analyze_batch the counts of the
\* summary add up to total_posts and, when total_posts > 0, the three
\* percentages sum to 100.
C29_PercentagesSumToHundred ==
    Summarised =>
        /\ summary.positive_count + summary.negative_count
               + summary.neutral_count = summary.total_posts
        /\ summary.total_posts > 0 => PercentageSum(summary) = FloatOf(100)

\* C29 amended: the counts add up to total_posts and, when total_posts > 0,
\* the exact quotients count * 100 / total_posts add up to 100, while the
\* three floats the summary holds add up, in whatever order, to a double at
\* most four units in the last place away from 100.0.
C29_PercentagesSumNearHundred ==
    Summarised =>
        /\ summary.positive_count + summary.negative_count
               + summary.neutral_count = summary.total_posts
        /\ summary.total_posts = Len(texts)
        /\ summary.total_posts > 0 =>
               LET pos == summary.positive_percentage
                   neg == summary.negative_percentage
                   neu == summary.neutral_percentage
               IN  /\ pos.den = summary.total_posts
                   /\ neg.den = summary.total_posts
                   /\ neu.den = summary.total_posts
                   /\ pos.num + neg.num + neu.num = 100 * summary.total_posts
                   /\ NearHundred(
                          FloatAdd(FloatAdd(pos.float, neg.float), neu.float))
                   /\ NearHundred(
                          FloatAdd(FloatAdd(pos.float, neu.float), neg.float))
                   /\ NearHundred(
                          FloatAdd(FloatAdd(neg.float, neu.float), pos.float))

\* A positive, a negative and a neutral post have been summarised: each
\* percentage is the double 33.33333333333333 and their sum is the double
\* just below 100.0.
C29_Witness ==
    /\ Summarised
    /\ Len(texts) = 3
    /\ summary.positive_count = 1
    /\ summary.negative_count = 1
    /\ summary.neutral_count = 1
    /\ PercentageSum(summary).e = FloatOf(100).e
    /\ PercentageSum(summary).m = Predecessor(FloatOf(100).m)

=============================================================================
